---- MODULE Spec2Model ----
(***************************************************************************)
(* Model of the packed-object access core of got (src/lib/pack.c): the     *)
(* pack cache, the delta cache, delta-chain resolution and delta-chain     *)
(* application, over a small fixture repository of four pack files.        *)
(***************************************************************************)
EXTENDS Integers, Sequences, FiniteSets, TLC

(* ---------------------------------------------------------------------- *)
(* Bounds of the model.                                                    *)
(* ---------------------------------------------------------------------- *)

\* nitems(repo->pack_cache), scaled down
PackCacheSize == 2
\* nitems(repo->delta_cache), scaled down
DeltaCacheSize == 2
\* nitems(cache->deltas), scaled down
DeltaCacheEntries == 2
\* number of delta buffers the model lets the program allocate
MaxBufs == 3
\* recursion depth at which the model lets the stack overflow
RecursionCap == 52
\* GOT_DELTA_RESULT_SIZE_CACHED_MAX, scaled down
InMemThreshold == 4
\* longest negative-offset encoding drawn as an input
MaxOfsLen == 9

(* ---------------------------------------------------------------------- *)
(* Program constants.                                                      *)
(* ---------------------------------------------------------------------- *)

GOT_OBJ_TYPE_COMMIT == 1
GOT_OBJ_TYPE_TREE == 2
GOT_OBJ_TYPE_BLOB == 3
GOT_OBJ_TYPE_TAG == 4
GOT_OBJ_TYPE_OFFSET_DELTA == 6
GOT_OBJ_TYPE_REF_DELTA == 7
\* sizeof(struct got_object_id)
SHA1_DIGEST_LENGTH == 20
\* the 7 payload bits of a negative-offset byte / its continuation bit
GOT_PACK_OBJ_DELTA_OFF_VAL_MASK == 127
GOT_PACK_OBJ_DELTA_OFF_MORE == 128
\* the first byte of a type+size header: 3 type bits, 4 size bits; the
\* 7 size bits of a later byte; the continuation bit
GOT_PACK_OBJ_SIZE0_TYPE_MASK == 112
GOT_PACK_OBJ_SIZE0_TYPE_MASK_SHIFT == 4
GOT_PACK_OBJ_SIZE0_VAL_MASK == 15
GOT_PACK_OBJ_SIZE_VAL_MASK == 127
GOT_PACK_OBJ_SIZE_MORE == 128

NULL == 0

PlainTypes ==
  {GOT_OBJ_TYPE_COMMIT, GOT_OBJ_TYPE_TREE, GOT_OBJ_TYPE_BLOB, GOT_OBJ_TYPE_TAG}

DeltaTypes == {GOT_OBJ_TYPE_OFFSET_DELTA, GOT_OBJ_TYPE_REF_DELTA}

(* ---------------------------------------------------------------------- *)
(* parse_negative_offset: the int64_t accumulator o is kept as ten limbs   *)
(* of 7 bits, least significant first; limb 9 holds bit 63 only, so all    *)
(* arithmetic is modulo 2^64 and limb 9 is the sign bit.                   *)
(* ---------------------------------------------------------------------- *)

Limbs == 0..9

LimbMod(i) == IF i = 9 THEN 2 ELSE 128

\* o = 0
I64Zero == [i \in Limbs |-> 0]

\* o = v for 0 <= v < 128
I64Small(v) == [I64Zero EXCEPT ![0] = v]

\* o++
I64Inc(o) ==
  [i \in Limbs |->
     IF \A j \in 0..(i - 1) : o[j] = 127 THEN (o[i] + 1) % LimbMod(i) ELSE o[i]]

\* o <<= 7
I64Shl7(o) ==
  [i \in Limbs |-> IF i = 0 THEN 0 ELSE o[i - 1] % LimbMod(i)]

\* o += v for 0 <= v < 128, after a shift has cleared limb 0
I64AddLow(o, v) == [o EXCEPT ![0] = v]

I64IsNeg(o) == o[9] = 1

\* the bits above bit 13 of the low 63 bits are not all zero
I64IsBig(o) == \E i \in 2..8 : o[i] # 0

\* the low 14 bits
I64Low(o) == o[0] + 128 * o[1]

\* The do-while loop of parse_negative_offset over the bytes of the file
\* from the current position; i bytes were consumed and o accumulated.
RECURSIVE ParseNegLoop(_, _, _)
ParseNegLoop(bytes, i, o) ==
  IF i > 8 THEN [err |-> "NoSpace", o |-> I64Zero, len |-> 0]
  ELSE IF i + 1 > Len(bytes) THEN [err |-> "BadPackIdx", o |-> I64Zero, len |-> 0]
  ELSE
    LET offN == bytes[i + 1]
        v    == offN % (GOT_PACK_OBJ_DELTA_OFF_VAL_MASK + 1)
        o2   == IF i = 0 THEN I64Small(v)
                ELSE I64AddLow(I64Shl7(I64Inc(o)), v)
    IN IF offN >= GOT_PACK_OBJ_DELTA_OFF_MORE
         THEN ParseNegLoop(bytes, i + 1, o2)
         ELSE [err |-> "", o |-> o2, len |-> i + 1]

parse_negative_offset(bytes) == ParseNegLoop(bytes, 0, I64Zero)

\* A base offset above every offset of the model (the difference
\* offset - negoffset for a negoffset that wrapped to a negative int64_t).
HugeOffset == 1073741824

\* parse_offset_delta for an offset below 2^14.  The subtraction
\* offset - negoffset is done on the limbs: a non-negative negoffset with a
\* bit above bit 13 exceeds the offset; a negative one yields a value above
\* the offset, or, when its low 63 bits do not exceed the offset, overflows
\* again and wraps to a negative value.
parse_offset_delta(bytes, offset) ==
  LET r == parse_negative_offset(bytes)
  IN IF r.err # "" THEN [err |-> r.err, base_offset |-> 0, len |-> 0]
     ELSE IF I64IsNeg(r.o)
       THEN IF ~I64IsBig(r.o) /\ I64Low(r.o) <= offset
              THEN [err |-> "BadPackFile", base_offset |-> 0, len |-> r.len]
              ELSE [err |-> "", base_offset |-> HugeOffset, len |-> r.len]
     ELSE IF I64IsBig(r.o) \/ offset - I64Low(r.o) <= 0
       THEN [err |-> "BadPackFile", base_offset |-> 0, len |-> r.len]
     ELSE [err |-> "", base_offset |-> offset - I64Low(r.o), len |-> r.len]

(* ---------------------------------------------------------------------- *)
(* parse_object_type_and_size.  The uint64_t s is the set of its bits that *)
(* are 1 (bit 0 the least significant), so that | is the union.  The term  *)
(* (sizeN & GOT_PACK_OBJ_SIZE_VAL_MASK) << shift has type int: its value   *)
(* is defined while it fits in 31 bits and the shift count is below 32.    *)
(* Outside of that the behaviour is undefined; ub says what the build      *)
(* makes of it: "wrap" keeps the low 32 bits of the value shifted by the   *)
(* count modulo 32 and extends the sign when the int is converted for |=;  *)
(* "wide" shifts in a 64-bit register, a count of 32 or more yielding 0.   *)
(* ---------------------------------------------------------------------- *)

\* the bits of v (0 <= v < 128) that are 1
BitsOf(v) == {k \in 0..6 : (v \div (2 ^ k)) % 2 = 1}

\* the conversion of a 32-bit int with these bits to uint64_t
SignExtend(bits) ==
  IF 31 \in bits THEN {b \in bits : b < 32} \cup 32..63
  ELSE {b \in bits : b < 32}

\* (uint64_t)(v << shift) for the int v
ShiftInt(v, shift, ub) ==
  IF shift >= 32
    THEN IF ub = "wrap" THEN SignExtend({(shift % 32) + k : k \in BitsOf(v)})
         ELSE {}
  ELSE IF \E k \in BitsOf(v) : shift + k >= 31
    THEN IF ub = "wrap" THEN SignExtend({shift + k : k \in BitsOf(v)})
         ELSE {shift + k : k \in BitsOf(v)}
  ELSE {shift + k : k \in BitsOf(v)}

\* the outputs of a call that returned an error: *type, *size and *len
\* were not written
NoHeader(e) == [err |-> e, type |-> -1, size |-> {}, len |-> -1]

\* The do-while loop of parse_object_type_and_size over the bytes of the
\* file from the current position to its end; i bytes were consumed.
RECURSIVE ParseSizeLoop(_, _, _, _, _)
ParseSizeLoop(bytes, i, t, s, ub) ==
  IF i > 9 THEN NoHeader("NoSpace")
  ELSE IF i + 1 > Len(bytes) THEN NoHeader("BadPackIdx")
  ELSE
    LET sizeN == bytes[i + 1]
        t2 == IF i = 0
                THEN (sizeN % (GOT_PACK_OBJ_SIZE0_TYPE_MASK
                                 + GOT_PACK_OBJ_SIZE0_VAL_MASK + 1))
                       \div (2 ^ GOT_PACK_OBJ_SIZE0_TYPE_MASK_SHIFT)
                ELSE t
        s2 == IF i = 0
                THEN BitsOf(sizeN % (GOT_PACK_OBJ_SIZE0_VAL_MASK + 1))
                ELSE s \cup ShiftInt(sizeN % (GOT_PACK_OBJ_SIZE_VAL_MASK + 1),
                                     4 + 7 * (i - 1), ub)
    IN IF sizeN >= GOT_PACK_OBJ_SIZE_MORE
         THEN ParseSizeLoop(bytes, i + 1, t2, s2, ub)
         ELSE [err |-> "", type |-> t2, size |-> s2, len |-> i + 1]

parse_object_type_and_size(bytes, ub) == ParseSizeLoop(bytes, 0, 0, {}, ub)

(* ---------------------------------------------------------------------- *)
(* The repository on disk: four pack files.  An object id is one byte (its *)
(* first byte); an entry is the object stored at offset off: its type code *)
(* and header length tslen, the bytes of its negative offset (OFS delta),  *)
(* the id of its base (REF delta), and the bytes its zlib stream inflates  *)
(* to.  A delta stream is <<base size, result size, commands...>>; a       *)
(* command c >= 128 copies (it is followed by offset and length), a        *)
(* command 0 < c < 128 inserts the c bytes that follow it.                 *)
(* ---------------------------------------------------------------------- *)

Packs == 1..4

Entry(id, off, type, neg, ref, z) ==
  [id |-> id, off |-> off, type |-> type, tslen |-> 1, neg |-> neg,
   ref |-> ref, z |-> z]

PackEntries ==
  << { Entry(10, 12, GOT_OBJ_TYPE_BLOB, <<>>, 0, <<1, 2>>),
         Entry(11, 30, GOT_OBJ_TYPE_OFFSET_DELTA, <<18>>, 0,
               <<2, 3, 128, 0, 2, 1, 3>>),
         Entry(12, 50, GOT_OBJ_TYPE_OFFSET_DELTA, <<20>>, 0,
               <<3, 5, 128, 1, 2, 3, 4, 5, 6>>) },
     { Entry(20, 12, GOT_OBJ_TYPE_BLOB, <<>>, 0, <<7, 7>>),
         Entry(21, 30, GOT_OBJ_TYPE_OFFSET_DELTA, <<18>>, 0,
               <<2, 3, 128, 0, 2, 1, 8>>),
         \* REF delta whose base is the blob of pack 1
         Entry(22, 50, GOT_OBJ_TYPE_REF_DELTA, <<>>, 10,
               <<2, 3, 128, 0, 2, 1, 9>>),
         \* REF delta whose base is an OFS delta of pack 1
         Entry(23, 90, GOT_OBJ_TYPE_REF_DELTA, <<>>, 11,
               <<3, 4, 128, 0, 3, 1, 9>>),
         \* unknown type code
         Entry(24, 130, 5, <<>>, 0, <<4>>),
         \* OFS delta with negative offset 0
         Entry(25, 150, GOT_OBJ_TYPE_OFFSET_DELTA, <<0>>, 0,
               <<2, 3, 128, 0, 2, 1, 8>>),
         \* OFS delta with negative offset 170 = its own offset
         Entry(26, 170, GOT_OBJ_TYPE_OFFSET_DELTA, <<128, 42>>, 0,
               <<2, 3, 128, 0, 2, 1, 8>>),
         \* OFS delta whose base is the entry with the unknown type code
         Entry(28, 140, GOT_OBJ_TYPE_OFFSET_DELTA, <<10>>, 0,
               <<1, 2, 128, 0, 1, 1, 8>>),
         \* REF delta naming a REF delta of pack 3 that names it back
         Entry(27, 190, GOT_OBJ_TYPE_REF_DELTA, <<>>, 31,
               <<2, 3, 128, 0, 2, 1, 8>>) },
     { Entry(30, 12, GOT_OBJ_TYPE_BLOB, <<>>, 0, <<5, 5>>),
         Entry(32, 30, GOT_OBJ_TYPE_OFFSET_DELTA, <<18>>, 0,
               <<2, 3, 128, 0, 2, 1, 5>>),
         Entry(31, 60, GOT_OBJ_TYPE_REF_DELTA, <<>>, 27,
               <<2, 3, 128, 0, 2, 1, 5>>) },
     { Entry(40, 12, GOT_OBJ_TYPE_TREE, <<>>, 0, <<6, 6>>),
         Entry(41, 30, GOT_OBJ_TYPE_OFFSET_DELTA, <<18>>, 0,
               <<2, 3, 128, 0, 2, 1, 6>>) } >>

Ids == UNION {{e.id : e \in PackEntries[p]} : p \in Packs}

\* an id no pack contains
AbsentId == 99

\* Position of the zlib stream of an entry: after the type and size header,
\* and after the negative offset or the base id of a delta.
DataPos(e) ==
  e.off + e.tslen +
    (IF e.type = GOT_OBJ_TYPE_OFFSET_DELTA THEN Len(e.neg)
     ELSE IF e.type = GOT_OBJ_TYPE_REF_DELTA THEN SHA1_DIGEST_LENGTH
     ELSE 0)

\* parse_object_type_and_size at offset off of pack p
HeaderAt(p, off) ==
  IF \E e \in PackEntries[p] : e.off = off
    THEN LET e == CHOOSE e \in PackEntries[p] : e.off = off
         IN [err |-> "", type |-> e.type, size |-> Len(e.z), tslen |-> e.tslen,
             neg |-> e.neg, ref |-> e.ref]
    ELSE [err |-> "BadPackIdx", type |-> 0, size |-> 0, tslen |-> 0,
          neg |-> <<>>, ref |-> 0]

\* got_inflate_to_mem / got_inflate_to_file at position pos of pack p
InflateAt(p, pos) ==
  IF \E e \in PackEntries[p] : DataPos(e) = pos
    THEN [err |-> "", buf |-> (CHOOSE e \in PackEntries[p] : DataPos(e) = pos).z]
    ELSE [err |-> "Decompression", buf |-> <<>>]

(* The pack index of pack p: sorted ids, their offsets, the fanout table. *)

RECURSIVE SortIds(_)
SortIds(S) ==
  IF S = {} THEN <<>>
  ELSE LET m == CHOOSE x \in S : \A y \in S : x <= y
       IN <<m>> \o SortIds(S \ {m})

\* packidx->sorted_ids of the four packs
sorted_ids == [p \in Packs |-> SortIds({e.id : e \in PackEntries[p]})]

RECURSIVE OffsetsOf(_, _)
OffsetsOf(p, ids) ==
  IF ids = <<>> THEN <<>>
  ELSE <<(CHOOSE e \in PackEntries[p] : e.id = Head(ids)).off>>
         \o OffsetsOf(p, Tail(ids))

\* packidx->offsets of the four packs
offsets == [p \in Packs |-> OffsetsOf(p, sorted_ids[p])]

\* packidx->fanout_table of the four packs
fanout_table ==
  [p \in Packs |->
     [b \in 0..255 |-> Cardinality({e \in PackEntries[p] : e.id <= b})]]

\* the index at which a loop over ascending indices stops: the least
\* element of S, or none if S is empty
FirstOr(S, none) ==
  IF S = {} THEN none ELSE CHOOSE i \in S : \A j \in S : i <= j

\* get_object_idx whose loop starts at fanout_table[id0]
get_object_idx_of_nextbucket(packidx, id) ==
  FirstOr({i \in packidx.fanout_table[id]..(packidx.fanout_table[255] - 1) :
             packidx.sorted_ids[i + 1] = id}, -1)

\* get_object_idx on a loaded index: the 0-based index of id, or -1.  The
\* loop runs from fanout_table[id0 - 1] (0 for id0 = 0) to totobj - 1 and
\* returns at the first entry that compares equal.
get_object_idx_of(packidx, id) ==
  FirstOr({i \in (IF id > 0 THEN packidx.fanout_table[id - 1] ELSE 0)
                   ..(packidx.fanout_table[255] - 1) :
             packidx.sorted_ids[i + 1] = id}, -1)

\* the indices i at which get_object_idx reads sorted_ids[i]
get_object_idx_reads(packidx, id) ==
  {i \in (IF id > 0 THEN packidx.fanout_table[id - 1] ELSE 0)
           ..(packidx.fanout_table[255] - 1) :
     get_object_idx_of(packidx, id) = -1 \/ i <= get_object_idx_of(packidx, id)}

\* get_object_idx on the index of pack p of the fixture
get_object_idx(p, id) ==
  get_object_idx_of([fanout_table |-> fanout_table[p],
                     sorted_ids |-> sorted_ids[p]], id)

\* get_object_offset (no offset of the fixture has its top bit set)
get_object_offset(p, idx) == offsets[p][idx + 1]

\* A 32-bit entry of offsets[] is the record of its top bit (large: the
\* result of & GOT_PACKIDX_OFFSET_VAL_IS_LARGE_IDX is not 0) and of its low
\* 31 bits (val: the result of & GOT_PACKIDX_OFFSET_VAL_MASK).  A 64-bit
\* entry of large_offsets[] is the record of whether it exceeds INT64_MAX
\* (over) and of its value if it does not (val).

\* get_object_offset on a loaded index: the offset returned (-1: error) and
\* the indices at which large_offsets[] was read.  large_offsets holds
\* totobj entries if it was loaded (calloc(nobj, ...)) and is NULL (empty
\* here) if not; beyond is what a read past its last entry yields.
get_object_offset_of(packidx, idx, beyond) ==
  LET totobj == packidx.fanout_table[255]
      offset == packidx.offsets[idx + 1]
  IN IF offset.large
       THEN IF offset.val < 0 \/ offset.val > totobj
                 \/ Len(packidx.large_offsets) = 0
              THEN [off |-> -1, reads |-> {}]
              ELSE LET loffset == IF offset.val < Len(packidx.large_offsets)
                                    THEN packidx.large_offsets[offset.val + 1]
                                    ELSE beyond
                   IN [off |-> IF loffset.over THEN -1 ELSE loffset.val,
                       reads |-> {offset.val}]
       ELSE [off |-> offset.val, reads |-> {}]

(* ---------------------------------------------------------------------- *)
(* Pack index files.  A file is the record of its fields in file order:    *)
(* magic, version, fanout_table, sorted_ids, crc32, offsets, large_offsets *)
(* (absent: <<>>) and the trailer of two digests.  The tables hold as many *)
(* entries as fanout_table[255] says, which is how the bytes after the     *)
(* fanout table are read.  An id is its first byte.  SHA-1 is a digest     *)
(* without collisions: the context is the sequence of the data fed to it,  *)
(* and feeding no bytes leaves it as it is.                                *)
(* ---------------------------------------------------------------------- *)

GOT_PACKIDX_V2_MAGIC == "ff744f63"

GOT_PACKIDX_VERSION == 2

SHA1Init == <<>>

SHA1Update(ctx, data, len) == IF len = 0 THEN ctx ELSE Append(ctx, data)

SHA1Final(ctx) == [sha1 |-> ctx]

\* verify_fanout_table: for (i = 0; i < 0xff - 1; i++)
verify_fanout_table(table) ==
  IF \E i \in 0..(255 - 1 - 1) : table[i] > table[i + 1]
    THEN "BadPackIdx" ELSE ""

\* packidx_sha1_ctx without the SHA1Update of the crc32 table
packidx_sha1_ctx_nocrc(f) ==
  LET nobj == f.fanout_table[255]
      c1 == SHA1Update(SHA1Init, f.magic, 4)
      c2 == SHA1Update(c1, f.version, 4)
      c3 == SHA1Update(c2, f.fanout_table, 256 * 4)
      c4 == SHA1Update(c3, f.sorted_ids, nobj * SHA1_DIGEST_LENGTH)
      c6 == SHA1Update(c4, f.offsets, nobj * 4)
      c7 == IF f.packfile_size_big
              THEN SHA1Update(c6, f.large_offsets, nobj * 8) ELSE c6
  IN SHA1Update(c7, f.trailer.packfile_sha1, SHA1_DIGEST_LENGTH)

\* the SHA-1 context of got_packidx_open when it reaches the label checksum
\* and has read the trailer
packidx_sha1_ctx(f) ==
  LET nobj == f.fanout_table[255]
      c1 == SHA1Update(SHA1Init, f.magic, 4)
      c2 == SHA1Update(c1, f.version, 4)
      c3 == SHA1Update(c2, f.fanout_table, 256 * 4)
      c4 == SHA1Update(c3, f.sorted_ids, nobj * SHA1_DIGEST_LENGTH)
      c5 == SHA1Update(c4, f.crc32, nobj * 4)
      c6 == SHA1Update(c5, f.offsets, nobj * 4)
      \* large offsets are read only if the pack file exceeds 0x80000000 bytes
      c7 == IF f.packfile_size_big
              THEN SHA1Update(c6, f.large_offsets, nobj * 8) ELSE c6
  IN SHA1Update(c7, f.trailer.packfile_sha1, SHA1_DIGEST_LENGTH)

\* Index files the loader is run on.  The first bytes of the ids are drawn
\* from IdxBytes; the fanout table is any table with steps at these bytes
\* and at 254, its values up to MaxIdxObjs.
MaxIdxObjs == 2

IdxBytes == {0, 5, 255}

IdxFanout(a, b, c, d) ==
  [x \in 0..255 |-> IF x < 5 THEN a ELSE IF x < 254 THEN b
                    ELSE IF x = 254 THEN c ELSE d]

\* a table as a piece of the byte stream of the file: nothing if it is empty
Bytes(table) == IF Len(table) = 0 THEN <<>> ELSE <<table>>

\* what SHA-1 yields over all the fields of the file that precede the
\* stored index digest, in file order
IdxFileDigest(magic, version, table, ids, crc32, offs, large, packsum) ==
  [sha1 |-> <<magic, version, table>> \o Bytes(ids) \o Bytes(crc32)
              \o Bytes(offs) \o Bytes(large) \o <<packsum>>]

\* the file with these fields; big: the pack file exceeds 0x80000000 bytes
\* and the index holds a table of large offsets; good: the stored index
\* digest is the digest of the file
IdxFile(magic, version, table, ids, big, good) ==
  [magic |-> magic, version |-> version, fanout_table |-> table,
   sorted_ids |-> ids,
   crc32 |-> [i \in 1..Len(ids) |-> 1],
   offsets |-> [i \in 1..Len(ids) |-> 12 + 20 * i],
   large_offsets |-> IF big THEN [i \in 1..Len(ids) |-> 0] ELSE <<>>,
   packfile_size_big |-> big,
   trailer |->
     [packfile_sha1 |-> "pack",
      packidx_sha1 |->
        IF good
          THEN IdxFileDigest(magic, version, table, ids,
                 [i \in 1..Len(ids) |-> 1], [i \in 1..Len(ids) |-> 12 + 20 * i],
                 IF big THEN [i \in 1..Len(ids) |-> 0] ELSE <<>>, "pack")
          ELSE [sha1 |-> <<"flipped">>]]]

IdxFiles ==
  UNION {{IdxFile(magic, version, IdxFanout(a, b, c, d), ids, big, good) :
            magic \in {GOT_PACKIDX_V2_MAGIC, "ff744f64"},
            version \in {GOT_PACKIDX_VERSION, 3},
            a \in 0..MaxIdxObjs, b \in 0..MaxIdxObjs, c \in 0..MaxIdxObjs,
            ids \in [1..d -> IdxBytes], big \in BOOLEAN, good \in BOOLEAN} :
         d \in 0..MaxIdxObjs}

\* *packidx when got_packidx_open has not set it
NullPackidx ==
  [fanout_table |-> <<>>, sorted_ids |-> <<>>, offsets |-> <<>>,
   large_offsets |-> <<>>,
   trailer |-> [packfile_sha1 |-> "", packidx_sha1 |-> [sha1 |-> <<>>]]]

NoPackidx == [err |-> "", packidx |-> NullPackidx, fed |-> <<>>]

\* got_packidx_open: the error, the index handed back (NULL on error) and
\* the data fed to SHA-1 before the digests were compared
got_packidx_open(f) ==
  IF f.magic # GOT_PACKIDX_V2_MAGIC THEN [NoPackidx EXCEPT !.err = "BadPackIdx"]
  ELSE IF f.version # GOT_PACKIDX_VERSION
    THEN [NoPackidx EXCEPT !.err = "BadPackIdx"]
  ELSE IF verify_fanout_table(f.fanout_table) # ""
    THEN [NoPackidx EXCEPT !.err = verify_fanout_table(f.fanout_table)]
  ELSE IF SHA1Final(packidx_sha1_ctx(f)) # f.trailer.packidx_sha1
    THEN [err |-> "PackIdxCsum", packidx |-> NullPackidx,
          fed |-> packidx_sha1_ctx(f)]
  ELSE [err |-> "",
        packidx |-> [fanout_table |-> f.fanout_table,
                     sorted_ids |-> f.sorted_ids, offsets |-> f.offsets,
                     large_offsets |-> f.large_offsets, trailer |-> f.trailer],
        fed |-> packidx_sha1_ctx(f)]

(* ---------------------------------------------------------------------- *)
(* Delta application (got_delta_lib).                                      *)
(* ---------------------------------------------------------------------- *)

got_delta_get_sizes(delta) ==
  IF Len(delta) < 2 THEN [err |-> "BadDelta", base_size |-> 0, result_size |-> 0]
  ELSE [err |-> "", base_size |-> delta[1], result_size |-> delta[2]]

RECURSIVE ApplyCmds(_, _, _, _)
ApplyCmds(base, delta, pos, out) ==
  IF pos > Len(delta) THEN [err |-> "", buf |-> out]
  ELSE
    LET c == delta[pos]
    IN IF c >= 128
         THEN IF pos + 2 > Len(delta) \/ delta[pos + 1] + delta[pos + 2] > Len(base)
                THEN [err |-> "BadDelta", buf |-> <<>>]
                ELSE ApplyCmds(base, delta, pos + 3,
                       out \o SubSeq(base, delta[pos + 1] + 1,
                                     delta[pos + 1] + delta[pos + 2]))
       ELSE IF c > 0
         THEN IF pos + c > Len(delta)
                THEN [err |-> "BadDelta", buf |-> <<>>]
                ELSE ApplyCmds(base, delta, pos + c + 1,
                       out \o SubSeq(delta, pos + 1, pos + c))
       ELSE [err |-> "BadDeltaChain", buf |-> <<>>]

\* got_delta_apply_in_mem and got_delta_apply: base + delta -> result
got_delta_apply(base, delta) ==
  LET sz == got_delta_get_sizes(delta)
  IN IF sz.err # "" THEN [err |-> sz.err, buf |-> <<>>]
     ELSE IF sz.base_size # Len(base) THEN [err |-> "BadDelta", buf |-> <<>>]
     ELSE LET r == ApplyCmds(base, delta, 3, <<>>)
          IN IF r.err # "" THEN r
             ELSE IF Len(r.buf) # sz.result_size
               THEN [err |-> "BadDelta", buf |-> <<>>]
             ELSE r

(* ---------------------------------------------------------------------- *)
(* The pack cache: repo->pack_cache, slots 1..PackCacheSize.               *)
(* ---------------------------------------------------------------------- *)

PackSlots == 1..PackCacheSize

EmptyPackSlot == [packidx |-> NULL, packfile |-> NULL, path_packfile |-> NULL]

\* index of the first slot whose packidx is NULL, PackCacheSize + 1 if none
FirstFreePackSlot(cache) ==
  IF \E i \in PackSlots : cache[i].packidx = NULL
    THEN CHOOSE i \in PackSlots :
           cache[i].packidx = NULL /\ \A j \in 1..(i - 1) : cache[j].packidx # NULL
    ELSE PackCacheSize + 1

\* cache_pack that, when the cache is full, overwrites slot 1 and moves no
\* entry
cache_pack_noshift(cache, p, nomem) ==
  LET i    == FirstFreePackSlot(cache)
      full == i = PackCacheSize + 1
      slot == IF full THEN 1 ELSE i
  IN [cache  |-> IF nomem
                   THEN [cache EXCEPT ![slot].packidx = NULL]
                   ELSE [cache EXCEPT ![slot] =
                           [packidx |-> p, packfile |-> p, path_packfile |-> p]],
      closed |-> IF full THEN {PackCacheSize} ELSE {}]

\* cache_pack: insert the pack whose index was just read from disk.  nomem
\* says that dup_packidx returns NULL.  The result is the cache and the set
\* of slots (of the cache as it was) whose index, file and path were closed.
cache_pack(cache, p, nomem) ==
  LET i       == FirstFreePackSlot(cache)
      full    == i = PackCacheSize + 1
      \* memmove(&repo->pack_cache[1], &repo->pack_cache[0], ...)
      shifted == IF full
                   THEN [k \in PackSlots |-> IF k = 1 THEN cache[1] ELSE cache[k - 1]]
                   ELSE cache
      slot    == IF full THEN 1 ELSE i
  IN [cache  |-> IF nomem
                   THEN [shifted EXCEPT ![slot].packidx = NULL]
                   ELSE [shifted EXCEPT ![slot] =
                           [packidx |-> p, packfile |-> p, path_packfile |-> p]],
      closed |-> IF full THEN {PackCacheSize} ELSE {}]

\* search_packidx that caches a pack of objects/pack before it looks for the
\* id in its index
search_packidx_cache_first(cache, id, disk, nomem) ==
  LET i == FirstOr({k \in 1..(FirstFreePackSlot(cache) - 1) :
                      get_object_idx(cache[k].packidx, id) # -1}, 0)
      p == FirstOr({q \in disk : get_object_idx(q, id) # -1}, NULL)
  IN IF i # 0
       THEN IF nomem
              THEN [err |-> "NoMem", packidx |-> NULL, idx |-> -1,
                    cache |-> cache, hit |-> i, inserted |-> FALSE,
                    closed |-> {}]
              ELSE [err |-> "", packidx |-> cache[i].packidx,
                    idx |-> get_object_idx(cache[i].packidx, id),
                    cache |-> cache, hit |-> i, inserted |-> FALSE,
                    closed |-> {}]
     ELSE IF p # NULL
       THEN [err |-> "", packidx |-> p, idx |-> get_object_idx(p, id),
             cache |-> cache_pack(cache, p, nomem).cache, hit |-> 0,
             inserted |-> TRUE, closed |-> cache_pack(cache, p, nomem).closed]
     ELSE [err |-> "NoObj", packidx |-> NULL, idx |-> -1,
           cache |-> IF disk = {} THEN cache
                     ELSE cache_pack(cache, FirstOr(disk, NULL), nomem).cache,
           hit |-> 0, inserted |-> FALSE, closed |-> {}]

\* search_packidx: the pack cache first, then every index of objects/pack.
\* No two packs of the fixture hold the same id, so the order in which
\* readdir returns the index files does not change the result.
\* disk is the set of packs whose index file is in objects/pack; nomem says
\* that dup_packidx returns NULL (on a hit, or inside cache_pack).
search_packidx(cache, id, disk, nomem) ==
  LET i == FirstOr({k \in 1..(FirstFreePackSlot(cache) - 1) :
                      get_object_idx(cache[k].packidx, id) # -1}, 0)
      p == FirstOr({q \in disk : get_object_idx(q, id) # -1}, NULL)
  IN IF i # 0
       THEN IF nomem
              THEN [err |-> "NoMem", packidx |-> NULL, idx |-> -1,
                    cache |-> cache, hit |-> i, inserted |-> FALSE,
                    closed |-> {}]
              ELSE [err |-> "", packidx |-> cache[i].packidx,
                    idx |-> get_object_idx(cache[i].packidx, id),
                    cache |-> cache, hit |-> i, inserted |-> FALSE,
                    closed |-> {}]
     ELSE IF p # NULL
       THEN [err |-> "", packidx |-> p, idx |-> get_object_idx(p, id),
             cache |-> cache_pack(cache, p, nomem).cache, hit |-> 0,
             inserted |-> TRUE, closed |-> cache_pack(cache, p, nomem).closed]
     ELSE [err |-> "NoObj", packidx |-> NULL, idx |-> -1, cache |-> cache,
           hit |-> 0, inserted |-> FALSE, closed |-> {}]

\* open_packfile: the cached handle of the pack with this index trailer,
\* else a handle of its own
open_packfile(cache, packidx) ==
  LET i == FirstOr({k \in 1..(FirstFreePackSlot(cache) - 1) :
                      cache[k].packidx = packidx}, 0)
  IN IF i # 0
       THEN [packfile |-> cache[i].packfile,
             path_packfile |-> cache[i].path_packfile, is_cached |-> TRUE]
       ELSE [packfile |-> packidx, path_packfile |-> packidx, is_cached |-> FALSE]

\* The calls that open_packed_object makes on the pack file handle and the
\* path it got from open_packfile, in order.  cached: open_packfile took
\* them from the pack cache; searched: the call comes after the
\* search_packidx of the same function, if it has one.
open_packed_object_uses(packfile, path_packfile, pack_cached) ==
  << [call |-> "fseeko", file |-> packfile, cached |-> pack_cached,
      searched |-> FALSE],
     [call |-> "fread", file |-> packfile, cached |-> pack_cached,
      searched |-> FALSE],
     [call |-> "strdup", file |-> path_packfile, cached |-> pack_cached,
      searched |-> FALSE] >>

\* the calls of resolve_offset_delta on its pack file handle and path
resolve_offset_delta_uses(packfile, path_packfile, pack_cached) ==
  << [call |-> "fread", file |-> packfile, cached |-> pack_cached,
      searched |-> FALSE],
     [call |-> "ftello", file |-> packfile, cached |-> pack_cached,
      searched |-> FALSE],
     [call |-> "add_delta", file |-> path_packfile, cached |-> pack_cached,
      searched |-> FALSE],
     [call |-> "fseeko", file |-> packfile, cached |-> pack_cached,
      searched |-> FALSE],
     [call |-> "fread", file |-> packfile, cached |-> pack_cached,
      searched |-> FALSE] >>

\* resolve_ref_delta that asks for the position of the delta data after it
\* has searched for the base
resolve_ref_delta_uses_tell_late(packfile, path_packfile, pack_cached, base_packfile, base_cached) ==
  << [call |-> "fread", file |-> packfile, cached |-> pack_cached,
      searched |-> FALSE],
     [call |-> "add_delta", file |-> path_packfile, cached |-> pack_cached,
      searched |-> FALSE],
     [call |-> "ftello", file |-> packfile, cached |-> pack_cached,
      searched |-> TRUE],
     [call |-> "fseeko", file |-> base_packfile, cached |-> base_cached,
      searched |-> TRUE],
     [call |-> "fread", file |-> base_packfile, cached |-> base_cached,
      searched |-> TRUE] >>

\* the calls of resolve_ref_delta on the handle and path of the delta and,
\* after search_packidx and open_packfile, on the handle of the base
resolve_ref_delta_uses(packfile, path_packfile, pack_cached, base_packfile, base_cached) ==
  << [call |-> "fread", file |-> packfile, cached |-> pack_cached,
      searched |-> FALSE],
     [call |-> "ftello", file |-> packfile, cached |-> pack_cached,
      searched |-> FALSE],
     [call |-> "add_delta", file |-> path_packfile, cached |-> pack_cached,
      searched |-> FALSE],
     [call |-> "fseeko", file |-> base_packfile, cached |-> base_cached,
      searched |-> TRUE],
     [call |-> "fread", file |-> base_packfile, cached |-> base_cached,
      searched |-> TRUE] >>

\* the pack file handles (and paths) the pack cache owns
CacheOwned(cache) ==
  {cache[k].packfile : k \in {j \in PackSlots : cache[j].packidx # NULL}}

\* The calls of uses made on a handle or path of the pack cache that was
\* closed or freed: those before the search on what cache does not own,
\* those after it on what searched_cache does not own.
DeadUses(uses, cache, searched_cache) ==
  {uses[n] : n \in {m \in DOMAIN uses :
     /\ uses[m].cached
     /\ uses[m].file \notin
          CacheOwned(IF uses[m].searched THEN searched_cache ELSE cache)}}

\* the handles that the label done of open_packed_object closes
open_packed_object_done(packfile, pack_cached) ==
  IF ~pack_cached THEN {packfile} ELSE {}

(* ---------------------------------------------------------------------- *)
(* The scan of objects/pack.  The directory is the sequence of its index   *)
(* files in the order readdir returns them; an index file is "ok", or      *)
(* "noent" (fopen fails), "nopack" (there is no .pack file next to it, so  *)
(* the stat of get_packfile_size fails) or "corrupt" (its checksum does    *)
(* not match).                                                             *)
(* ---------------------------------------------------------------------- *)

IdxStates == {"ok", "noent", "nopack", "corrupt"}

\* got_packidx_open on an index file in state st: its error, whether it
\* opened the file and whether it closed it again
got_packidx_open_file(st) ==
  IF st = "noent"
    THEN [err |-> "Errno", opened |-> FALSE, closed |-> FALSE]
  ELSE IF st = "nopack"
    \* if (err) return err;  after get_packfile_size
    THEN [err |-> "Errno", opened |-> TRUE, closed |-> FALSE]
  ELSE IF st = "corrupt"
    THEN [err |-> "PackIdxCsum", opened |-> TRUE, closed |-> TRUE]
  ELSE [err |-> "", opened |-> TRUE, closed |-> TRUE]

\* the index handle got_packidx_open leaves open for pack p
IdxLeftOpen(p, o) == IF o.opened /\ ~o.closed THEN {p} ELSE {}

\* the readdir loop of search_packidx that goes on to the next index file
\* when one fails to open
RECURSIVE search_packidx_readdir_skip(_, _, _, _, _, _)
search_packidx_readdir_skip(cache, id, dir, n, examined, left) ==
  IF n > Len(dir)
    THEN [err |-> "NoObj", packidx |-> NULL, idx |-> -1, cache |-> cache,
          hit |-> 0, inserted |-> FALSE, closed |-> {},
          examined |-> examined, idx_left_open |-> left]
  ELSE IF got_packidx_open_file(dir[n].idx).err # ""
    THEN search_packidx_readdir_skip(cache, id, dir, n + 1,
           Append(examined, dir[n].pack),
           left \cup IdxLeftOpen(dir[n].pack,
                       got_packidx_open_file(dir[n].idx)))
  ELSE IF get_object_idx(dir[n].pack, id) # -1
    THEN [err |-> "", packidx |-> dir[n].pack,
          idx |-> get_object_idx(dir[n].pack, id),
          cache |-> cache_pack(cache, dir[n].pack, FALSE).cache, hit |-> 0,
          inserted |-> TRUE,
          closed |-> cache_pack(cache, dir[n].pack, FALSE).closed,
          examined |-> Append(examined, dir[n].pack), idx_left_open |-> left]
  ELSE search_packidx_readdir_skip(cache, id, dir, n + 1,
         Append(examined, dir[n].pack), left)

\* The readdir loop of search_packidx from entry n of the directory on.
\* examined: the index files given to got_packidx_open so far;
\* left: the index handles left open so far.
RECURSIVE search_packidx_readdir(_, _, _, _, _, _)
search_packidx_readdir(cache, id, dir, n, examined, left) ==
  IF n > Len(dir)
    THEN [err |-> "NoObj", packidx |-> NULL, idx |-> -1, cache |-> cache,
          hit |-> 0, inserted |-> FALSE, closed |-> {},
          examined |-> examined, idx_left_open |-> left]
  ELSE IF got_packidx_open_file(dir[n].idx).err # ""
    THEN [err |-> got_packidx_open_file(dir[n].idx).err, packidx |-> NULL,
          idx |-> -1, cache |-> cache, hit |-> 0, inserted |-> FALSE,
          closed |-> {}, examined |-> Append(examined, dir[n].pack),
          idx_left_open |->
            left \cup IdxLeftOpen(dir[n].pack,
                        got_packidx_open_file(dir[n].idx))]
  ELSE IF get_object_idx(dir[n].pack, id) # -1
    THEN [err |-> "", packidx |-> dir[n].pack,
          idx |-> get_object_idx(dir[n].pack, id),
          cache |-> cache_pack(cache, dir[n].pack, FALSE).cache, hit |-> 0,
          inserted |-> TRUE,
          closed |-> cache_pack(cache, dir[n].pack, FALSE).closed,
          examined |-> Append(examined, dir[n].pack), idx_left_open |-> left]
  ELSE search_packidx_readdir(cache, id, dir, n + 1,
         Append(examined, dir[n].pack), left)

\* search_packidx on a directory whose index files may fail to open: the
\* pack cache first, then the readdir loop
search_packidx_dir(cache, id, dir) ==
  IF search_packidx(cache, id, {}, FALSE).hit # 0
    THEN [err |-> "", packidx |-> search_packidx(cache, id, {}, FALSE).packidx,
          idx |-> search_packidx(cache, id, {}, FALSE).idx, cache |-> cache,
          hit |-> search_packidx(cache, id, {}, FALSE).hit,
          inserted |-> FALSE, closed |-> {}, examined |-> <<>>,
          idx_left_open |-> {}]
    ELSE search_packidx_readdir(cache, id, dir, 1, <<>>, {})

(* ---------------------------------------------------------------------- *)
(* The delta cache: repo->delta_cache, buckets 1..DeltaCacheSize of        *)
(* entries 1..DeltaCacheEntries.  A delta buffer is a pointer into heap;   *)
(* heap[b] records the bytes of buffer b, the path and offset it was       *)
(* cached under and how often it was freed.                                *)
(* ---------------------------------------------------------------------- *)

Buckets == 1..DeltaCacheSize

EntrySlots == 1..DeltaCacheEntries

EmptyEntry == [data_offset |-> 0, delta_buf |-> NULL]

EmptyBucket ==
  [path_packfile |-> NULL, deltas |-> [i \in EntrySlots |-> EmptyEntry]]

\* free(ptr)
Free(heap, ptr) ==
  IF ptr = NULL THEN heap
  ELSE [heap EXCEPT ![ptr].frees = IF @ < 2 THEN @ + 1 ELSE @]

\* index of the first entry whose data_offset is 0, DeltaCacheEntries + 1 if none
FirstFreeEntry(deltas) ==
  IF \E i \in EntrySlots : deltas[i].data_offset = 0
    THEN CHOOSE i \in EntrySlots :
           deltas[i].data_offset = 0
           /\ \A j \in 1..(i - 1) : deltas[j].data_offset # 0
    ELSE DeltaCacheEntries + 1

\* add_delta_cache_entry on bucket b of the cache state st = [dc, heap]
add_delta_cache_entry(st, b, data_offset, delta_buf) ==
  LET deltas  == st.dc[b].deltas
      i       == FirstFreeEntry(deltas)
      full    == i = DeltaCacheEntries + 1
      \* clear_delta_cache_entry(&cache->deltas[i - 1]), then memmove
      heap2   == IF full THEN Free(st.heap, deltas[DeltaCacheEntries].delta_buf)
                 ELSE st.heap
      cleared == IF full THEN [deltas EXCEPT ![DeltaCacheEntries] = EmptyEntry]
                 ELSE deltas
      shifted == IF full
                   THEN [k \in EntrySlots |->
                           IF k = 1 THEN cleared[1] ELSE cleared[k - 1]]
                   ELSE deltas
      slot    == IF full THEN 1 ELSE i
  IN [dc |-> [st.dc EXCEPT ![b].deltas =
                [shifted EXCEPT ![slot] =
                   [data_offset |-> data_offset, delta_buf |-> delta_buf]]],
      heap |-> heap2]

\* the entries of a bucket that the eviction loop of cache_delta clears
ClearedEntries(deltas) == 1..(FirstFreeEntry(deltas) - 1)

RECURSIVE FreeAll(_, _, _)
FreeAll(heap, deltas, js) ==
  IF js = {} THEN heap
  ELSE LET j == CHOOSE j \in js : TRUE
       IN FreeAll(Free(heap, deltas[j].delta_buf), deltas, js \ {j})

\* index of the bucket at which the first loop of cache_delta and of
\* get_cached_delta stops: the first bucket with no path or with this path
FirstBucket(dc, path_packfile) ==
  IF \E i \in Buckets : dc[i].path_packfile \in {NULL, path_packfile}
    THEN CHOOSE i \in Buckets :
           dc[i].path_packfile \in {NULL, path_packfile}
           /\ \A j \in 1..(i - 1) : dc[j].path_packfile \notin {NULL, path_packfile}
    ELSE DeltaCacheSize + 1

\* cache_delta
cache_delta(st, data_offset, delta_buf, path_packfile) ==
  LET i == FirstBucket(st.dc, path_packfile)
  IN IF i <= DeltaCacheSize /\ st.dc[i].path_packfile = path_packfile
       THEN add_delta_cache_entry(st, i, data_offset, delta_buf)
     ELSE IF i <= DeltaCacheSize
       THEN add_delta_cache_entry(
              [st EXCEPT !.dc[i].path_packfile = path_packfile],
              i, data_offset, delta_buf)
     ELSE
       LET last    == st.dc[DeltaCacheSize]
           js      == ClearedEntries(last.deltas)
           heap2   == FreeAll(st.heap, last.deltas, js)
           \* memmove(&repo->delta_cache[1], &repo->delta_cache[0], ...)
           shifted == [k \in Buckets |->
                         IF k = 1 THEN st.dc[1] ELSE st.dc[k - 1]]
           dc2     == [shifted EXCEPT ![1].path_packfile = path_packfile]
       IN add_delta_cache_entry([dc |-> dc2, heap |-> heap2], 1,
                                data_offset, delta_buf)

\* get_cached_delta: the cached buffer, or NULL
get_cached_delta(dc, data_offset, path_packfile) ==
  LET i == FirstBucket(dc, path_packfile)
  IN IF i > DeltaCacheSize \/ dc[i].path_packfile = NULL THEN NULL
     ELSE LET deltas == dc[i].deltas
              free   == FirstFreeEntry(deltas)
              hits   == {j \in 1..(free - 1) : deltas[j].data_offset = data_offset}
          IN IF hits = {} THEN NULL
             ELSE deltas[FirstOr(hits, 0)].delta_buf

\* The bytes read through a buffer pointer.  Reading a freed buffer is
\* undefined: the read sees the old bytes (stale) or other bytes.
ReadBuf(heap, ptr, stale) ==
  IF heap[ptr].frees = 0 \/ stale THEN heap[ptr].buf ELSE <<0>>

(* ---------------------------------------------------------------------- *)
(* Delta chains and their application.                                     *)
(* ---------------------------------------------------------------------- *)

\* got_delta_open: one entry of a chain
got_delta_open(path_packfile, offset, tslen, type, size, data_offset) ==
  [path_packfile |-> path_packfile, offset |-> offset, tslen |-> tslen,
   type |-> type, size |-> size, data_offset |-> data_offset]

EmptyChain == [entries |-> <<>>, nentries |-> 0]

\* add_delta without the increment of nentries
add_delta_nocount(deltas, delta) ==
  [entries |-> <<delta>> \o deltas.entries, nentries |-> deltas.nentries]

\* add_delta: deltas->nentries++ and SIMPLEQ_INSERT_HEAD
add_delta(deltas, delta) ==
  [entries |-> <<delta>> \o deltas.entries, nentries |-> deltas.nentries + 1]

\* got_delta_chain_get_base_type
got_delta_chain_get_base_type(deltas) ==
  IF deltas.entries # <<>> /\ deltas.entries[1].type \in PlainTypes
    THEN [err |-> "", type |-> deltas.entries[1].type]
    ELSE [err |-> "BadDeltaChain", type |-> 0]

Max(a, b) == IF a > b THEN a ELSE b

\* get_delta_chain_max_size: every delta is inflated from packfile
RECURSIVE MaxSizeLoop(_, _, _, _, _, _)
MaxSizeLoop(entries, k, packfile, base_size, result_size, max_size) ==
  IF k > Len(entries) THEN [err |-> "", max_size |-> max_size]
  ELSE
    LET d == entries[k]
    IN IF d.type \notin PlainTypes
         THEN LET z  == InflateAt(packfile, d.data_offset)
                  sz == got_delta_get_sizes(z.buf)
              IN IF z.err # "" THEN [err |-> z.err, max_size |-> 0]
                 ELSE IF sz.err # "" THEN [err |-> sz.err, max_size |-> 0]
                 ELSE MaxSizeLoop(entries, k + 1, packfile,
                        sz.base_size, sz.result_size,
                        Max(max_size, Max(sz.base_size, sz.result_size)))
         ELSE MaxSizeLoop(entries, k + 1, packfile, d.size, result_size,
                Max(max_size, Max(d.size, result_size)))

get_delta_chain_max_size(deltas, packfile) ==
  MaxSizeLoop(deltas.entries, 1, packfile, 0, 0, 0)

\* The SIMPLEQ_FOREACH loop of dump_delta_chain_to_mem (mode "mem") and of
\* dump_delta_chain_to_file (mode "mem" below the size threshold, "file"
\* above it), at entry k with n entries processed.  base and accum are the
\* base and accumulator buffers (or temporary files), outfile the output
\* file; st = [dc, heap, log] is the delta cache, the heap and the log of
\* the cache lookups made.
RECURSIVE DumpLoop(_, _, _, _, _, _, _, _, _, _, _)
DumpLoop(deltas, k, n, base, accum, outfile, st, packfile, path_packfile, mode, stale) ==
  IF k > Len(deltas.entries)
    THEN [err |-> "", accum |-> accum, outfile |-> outfile, st |-> st]
  ELSE
    LET d == deltas.entries[k]
    IN IF n = 0
         THEN IF d.type \notin PlainTypes
                THEN [err |-> "BadDeltaChain", accum |-> accum,
                      outfile |-> outfile, st |-> st]
              ELSE LET z == InflateAt(packfile, d.offset + d.tslen)
                   IN IF z.err # ""
                        THEN [err |-> z.err, accum |-> accum,
                              outfile |-> outfile, st |-> st]
                        ELSE DumpLoop(deltas, k + 1, 1, z.buf, accum, outfile,
                               st, packfile, path_packfile, mode, stale)
       ELSE
         LET cached == get_cached_delta(st.dc, d.data_offset, path_packfile)
             z      == InflateAt(packfile, d.data_offset)
             heap1  == Append(st.heap,
                         [buf |-> z.buf, path_packfile |-> path_packfile,
                          data_offset |-> d.data_offset, frees |-> 0])
             st1    == IF cached # NULL THEN [dc |-> st.dc, heap |-> st.heap]
                       ELSE cache_delta([dc |-> st.dc, heap |-> heap1],
                              d.data_offset, Len(heap1), path_packfile)
             ptr    == IF cached # NULL THEN cached ELSE Len(heap1)
             bytes  == ReadBuf(st1.heap, ptr, stale)
             st2    == [dc |-> st1.dc, heap |-> st1.heap,
                        log |-> st.log \cup
                          {[delta_path |-> d.path_packfile,
                            key_path |-> path_packfile,
                            data_offset |-> d.data_offset,
                            hit |-> cached # NULL, bytes |-> bytes]}]
             r      == got_delta_apply(base, bytes)
             n2     == n + 1
             final  == mode = "file" /\ ~(n2 < deltas.nentries)
             accum2 == IF final THEN accum ELSE r.buf
             out2   == IF final THEN r.buf ELSE outfile
         IN IF cached = NULL /\ z.err # ""
              THEN [err |-> z.err, accum |-> accum, outfile |-> outfile,
                    st |-> [st EXCEPT !.log = @ \cup
                              {[delta_path |-> d.path_packfile,
                                key_path |-> path_packfile,
                                data_offset |-> d.data_offset,
                                hit |-> FALSE, bytes |-> <<>>]}]]
            ELSE IF r.err # ""
              THEN [err |-> r.err, accum |-> accum, outfile |-> outfile,
                    st |-> st2]
            ELSE IF n2 < deltas.nentries
              \* accumulated delta becomes the new base
              THEN DumpLoop(deltas, k + 1, n2, accum2, base, out2, st2,
                     packfile, path_packfile, mode, stale)
              ELSE DumpLoop(deltas, k + 1, n2, base, accum2, out2, st2,
                     packfile, path_packfile, mode, stale)

\* What the dump functions hand back after the loop r: in mode "mem" the
\* accumulated buffer (dump_delta_chain_to_file writes it to outfile at
\* done), in mode "file" the output file.
DumpResult(r, mode) ==
  IF r.err # "" THEN [err |-> r.err, buf |-> <<>>, st |-> r.st]
  ELSE [err |-> "", buf |-> IF mode = "mem" THEN r.accum ELSE r.outfile,
        st |-> r.st]

\* dump_delta_chain_to_mem
dump_delta_chain_to_mem(deltas, st, packfile, path_packfile, stale) ==
  LET m == get_delta_chain_max_size(deltas, packfile)
  IN IF deltas.entries = <<>> THEN [err |-> "BadDeltaChain", buf |-> <<>>, st |-> st]
     ELSE IF m.err # "" THEN [err |-> m.err, buf |-> <<>>, st |-> st]
     ELSE DumpResult(DumpLoop(deltas, 1, 0, <<>>, <<>>, <<>>, st, packfile,
                              path_packfile, "mem", stale), "mem")

\* the choice of dump_delta_chain_to_file between memory and temporary files
DumpMode(max_size) == IF max_size < InMemThreshold THEN "mem" ELSE "file"

\* dump_delta_chain_to_file
dump_delta_chain_to_file(deltas, st, packfile, path_packfile, stale) ==
  LET m == get_delta_chain_max_size(deltas, packfile)
  IN IF deltas.entries = <<>> THEN [err |-> "BadDeltaChain", buf |-> <<>>, st |-> st]
     ELSE IF m.err # "" THEN [err |-> m.err, buf |-> <<>>, st |-> st]
     ELSE DumpResult(DumpLoop(deltas, 1, 0, <<>>, <<>>, <<>>, st, packfile,
                              path_packfile, DumpMode(m.max_size), stale),
                     DumpMode(m.max_size))

\* The objects handed to callers (struct got_object).
NoObject ==
  [id |-> 0, type |-> 0, flags |-> {}, path_packfile |-> NULL,
   pack_offset |-> 0, size |-> 0, deltas |-> EmptyChain]

\* got_packfile_extract_object_to_mem
got_packfile_extract_object_to_mem(o, st, stale) ==
  IF "PACKED" \notin o.flags THEN [err |-> "ObjNotPacked", buf |-> <<>>, st |-> st]
  ELSE IF "DELTIFIED" \notin o.flags
    THEN LET z == InflateAt(o.path_packfile, o.pack_offset)
         IN [err |-> z.err, buf |-> z.buf, st |-> st]
  ELSE dump_delta_chain_to_mem(o.deltas, st, o.path_packfile,
                               o.path_packfile, stale)

\* got_packfile_extract_object
got_packfile_extract_object(o, st, stale) ==
  IF "PACKED" \notin o.flags THEN [err |-> "ObjNotPacked", buf |-> <<>>, st |-> st]
  ELSE IF "DELTIFIED" \notin o.flags
    THEN LET z == InflateAt(o.path_packfile, o.pack_offset)
         IN [err |-> z.err, buf |-> z.buf, st |-> st]
  ELSE dump_delta_chain_to_file(o.deltas, st, o.path_packfile,
                                o.path_packfile, stale)

(* ---------------------------------------------------------------------- *)
(* The state of one repository handle and of its single caller.            *)
(* ---------------------------------------------------------------------- *)

VARIABLES
  pack_cache,   \* repo->pack_cache
  delta_cache,  \* repo->delta_cache
  heap,         \* the delta buffers allocated so far
  pc,           \* "idle", "resolve" (inside resolve_delta_chain), "crashed"
  frame,        \* the arguments of the pending resolve_delta_chain call
  chain,        \* the delta chain built so far by the pending lookup
  depth,        \* nesting depth of the pending resolve_delta_chain call
  req,          \* the id and pack offset of the last lookup
  obj,          \* the object the last lookup returned, or NoObject
  err,          \* the error the last lookup returned, or ""
  last_search,  \* outcome of the last search_packidx call
  mem,          \* result of got_packfile_extract_object_to_mem on obj
  file,         \* result of got_packfile_extract_object on obj
  log,          \* delta cache lookups of the last extraction
  ofs_in,       \* input of parse_offset_delta (SpecOfs)
  ofs_out,      \* its result (SpecOfs)
  on_disk,      \* the packs whose files are in objects/pack
  cancel_req,   \* the caller has asked for the running operations to stop
  idx_file,     \* the index file given to got_packidx_open (SpecIdx)
  idx_open,     \* the result of got_packidx_open on idx_file (SpecIdx)
  idx_find,     \* the last get_object_idx on the loaded index (SpecIdx)
  loff,         \* an index and get_object_offset on it (SpecLoff)
  hdr,          \* a file and parse_object_type_and_size on it (SpecHdr)
  wt,           \* work tree locks and the callers of got_worktree_open (SpecWt)
  upd,          \* a run of cmd_update (SpecUpd)
  scan,         \* objects/pack as readdir lists it and the last lookup in it (SpecScan)
  fh            \* the uses of file handles and paths by the last step of a lookup

\* the variables of the specifications of single functions
aux_vars == <<loff, hdr, wt, upd, scan>>

vars ==
  <<pack_cache, delta_cache, heap, pc, frame, chain, depth, req, obj, err,
    last_search, mem, file, log, ofs_in, ofs_out, on_disk, cancel_req,
    idx_file, idx_open, idx_find, aux_vars, fh>>

NoFrame ==
  [packfile |-> NULL, path_packfile |-> NULL, pack_cached |-> FALSE,
   delta_offset |-> 0, tslen |-> 0, delta_type |-> 0, delta_size |-> 0]

NoReq == [id |-> 0, path_packfile |-> NULL, offset |-> 0, tslen |-> 0, type |-> 0]

NoSearch ==
  [hit |-> 0, packidx |-> NULL, before |-> <<>>, err |-> "", inserted |-> FALSE,
   closed |-> {}, nomem |-> FALSE, scanned |-> FALSE]

\* dead: the calls of the last step on closed handles and freed paths;
\* evicted_held: the search of the last step closed the handle that the
\* step was reading from
NoFh == [dead |-> {}, evicted_held |-> FALSE]

NoResult == [done |-> FALSE, err |-> "", buf |-> <<>>]

NoOfsIn == [bytes |-> <<>>, offset |-> 0]

NoOfsOut == [done |-> FALSE, err |-> "", base_offset |-> 0]

\* an index file with no objects
NoIdxFile == IdxFile(GOT_PACKIDX_V2_MAGIC, GOT_PACKIDX_VERSION,
                     IdxFanout(0, 0, 0, 0), <<>>, FALSE, TRUE)

NoIdxOpen == [done |-> FALSE, err |-> "", packidx |-> NullPackidx, fed |-> <<>>]

NoIdxFind == [done |-> FALSE, id |-> 0, idx |-> -1, examined |-> {}]

NoLoffIndex == [fanout_table |-> [x \in 0..255 |-> 0], offsets |-> <<>>,
                large_offsets |-> <<>>]

NoLoff == [packidx |-> NoLoffIndex, done |-> FALSE, idx |-> 0, off |-> 0,
           err |-> "", reads |-> {}]

NoHdr == [bytes |-> <<>>, done |-> FALSE, err |-> "", type |-> -1,
          size |-> {}, len |-> -1, ub |-> ""]

(* ---------------------------------------------------------------------- *)
(* Work trees (worktree.c).  The lock file of a work tree is opened with   *)
(* O_EXLOCK | O_NONBLOCK: the open file description fd holds an exclusive  *)
(* lock on the file until it is closed, and an open of a locked file fails *)
(* with EWOULDBLOCK.  lock[path] is the description that holds the lock of *)
(* the work tree at path, 0 if none; a caller's description has the        *)
(* caller's number.                                                        *)
(* ---------------------------------------------------------------------- *)

MaxWtCallers == 3

WtCallers == 1..MaxWtCallers

WtPaths == {1, 2}

\* open(path_lock, O_RDWR | O_EXLOCK | O_NONBLOCK) by caller c
open_exlock(lock, path, c) ==
  IF lock[path] # 0 THEN [fd |-> -1, lock |-> lock]
  ELSE [fd |-> c, lock |-> [lock EXCEPT ![path] = c]]

\* close(fd): the lock the description holds is released
close_fd(lock, fd) == [p \in WtPaths |-> IF lock[p] = fd THEN 0 ELSE lock[p]]

\* got_worktree_open that keeps the lock file open when it fails
worktree_open_done_keepfd(lock, fd, e) ==
  [lock |-> lock, lockfd |-> IF e # "" THEN -1 ELSE fd,
   worktree |-> e = ""]

\* the label done of got_worktree_open: on error the lock file is closed
\* and no work tree is handed back, else the work tree keeps fd as lockfd
worktree_open_done(lock, fd, e) ==
  [lock |-> IF e # "" /\ fd # -1 THEN close_fd(lock, fd) ELSE lock,
   lockfd |-> IF e # "" THEN -1 ELSE fd,
   worktree |-> e = ""]

\* got_worktree_close
got_worktree_close(lock, lockfd) ==
  IF lockfd # -1 THEN close_fd(lock, lockfd) ELSE lock

\* the errors of got_worktree_open after the lock was taken
WtOpenErrors == {"", "Errno", "WorktreeBusy", "WorktreeMeta", "WorktreeVers", "NoMem"}

NoWtCall == [pc |-> "idle", path |-> 0, fd |-> -1, lockfd |-> -1]

NoWtResult ==
  [done |-> FALSE, caller |-> 0, path |-> 0, err |-> "", worktree |-> FALSE,
   was_open |-> FALSE]

NoWt ==
  [lock |-> [p \in WtPaths |-> 0], st |-> [c \in WtCallers |-> NoWtCall],
   last |-> NoWtResult, closed |-> {}]

(* ---------------------------------------------------------------------- *)
(* got update (got.c).  The history of the work tree's head is the         *)
(* sequence of commit ids that got_commit_graph_iter_next hands out, the   *)
(* head first; before any of them it may ask for more commits to be        *)
(* fetched (GOT_ERR_ITER_NEED_MORE), and after the last it reports         *)
(* GOT_ERR_ITER_COMPLETED.                                                 *)
(* ---------------------------------------------------------------------- *)

\* One pass of the loop of check_ancestry with pos commits already handed
\* out and err the value err has at the top of the loop.  sig: one of
\* sigint_received, sigpipe_received is set; more: iter_next asks for more
\* commits; fetch_err: the error of got_commit_graph_fetch_commits.
\* left: the loop was left; found: because the ids compared equal.
check_ancestry_pass(hist, commit_id, pos, err0, sig, more, fetch_err) ==
  IF sig
    THEN [left |-> TRUE, err |-> err0, pos |-> pos, found |-> FALSE]
  ELSE IF more
    THEN [left |-> fetch_err # "", err |-> fetch_err, pos |-> pos,
          found |-> FALSE]
  ELSE IF pos >= Len(hist)
    THEN [left |-> TRUE, err |-> "Ancestry", pos |-> pos, found |-> FALSE]
  ELSE [left |-> hist[pos + 1] = commit_id, err |-> "", pos |-> pos + 1,
        found |-> hist[pos + 1] = commit_id]

\* cmd_update after check_ancestry returned error: the base commit of the
\* work tree
update_base_commit(base, commit_id, error) ==
  IF error # "" THEN base
  ELSE IF base # commit_id THEN commit_id
  ELSE base

NoUpd ==
  [pc |-> "off", hist |-> <<>>, commit_id |-> 0, base0 |-> 0, base |-> 0,
   pos |-> 0, err |-> "", found |-> FALSE, sigint_received |-> FALSE,
   sigpipe_received |-> FALSE]

\* dir: objects/pack; id, err, hit, examined, before: the last lookup, its
\* error, the cache slot it hit, the index files it opened and the pack
\* cache as it was; idx_open: the index handles that are open; pack_open:
\* the pack handles that cache_pack opened and nothing closed; own_open:
\* the pack handles that a lookup opened for itself and did not close;
\* bad_close: the handles closed twice, or closed by a lookup although the
\* pack cache owns them
NoScan ==
  [dir |-> <<>>, done |-> FALSE, id |-> 0, err |-> "", hit |-> 0,
   examined |-> <<>>, before |-> <<>>, idx_open |-> {}, pack_open |-> {},
   own_open |-> {}, bad_close |-> {}]

AuxInit ==
  /\ loff = NoLoff
  /\ hdr = NoHdr
  /\ wt = NoWt
  /\ upd = NoUpd
  /\ scan = NoScan

Init ==
  /\ pack_cache = [i \in PackSlots |-> EmptyPackSlot]
  /\ delta_cache = [i \in Buckets |-> EmptyBucket]
  /\ heap = <<>>
  /\ pc = "idle"
  /\ frame = NoFrame
  /\ chain = EmptyChain
  /\ depth = 0
  /\ req = NoReq
  /\ obj = NoObject
  /\ err = ""
  /\ last_search = NoSearch
  /\ mem = NoResult
  /\ file = NoResult
  /\ log = {}
  /\ ofs_in = NoOfsIn
  /\ ofs_out = NoOfsOut
  /\ on_disk = Packs
  /\ cancel_req = FALSE
  /\ idx_file = NoIdxFile
  /\ idx_open = NoIdxOpen
  /\ idx_find = NoIdxFind
  /\ fh = NoFh
  /\ AuxInit

\* the lookup in progress ends with error e and returns no object
Fail(e) ==
  /\ pc' = "idle"
  /\ frame' = NoFrame
  /\ chain' = EmptyChain
  /\ depth' = 0
  /\ obj' = NoObject
  /\ err' = e

\* what search_packidx did: the slot it hit (0 on a miss), the pack it
\* returned, the pack cache as it was before the call, its error, whether it
\* called cache_pack and which slots that closed, whether dup_packidx failed
\* and whether it scanned objects/pack
SearchRecord(s, cache, nomem) ==
  [hit |-> s.hit, packidx |-> s.packidx, before |-> cache, err |-> s.err,
   inserted |-> s.inserted, closed |-> s.closed, nomem |-> nomem,
   scanned |-> s.hit = 0]

\* the switch of open_packed_object without its default case
open_packed_object_kind_nodefault(type) ==
  IF type \in DeltaTypes THEN "delta" ELSE "plain"

\* the switch of open_packed_object on the type code of the entry
open_packed_object_kind(type) ==
  IF type \in PlainTypes THEN "plain"
  ELSE IF type \in DeltaTypes THEN "delta"
  ELSE "notimpl"

\* got_packfile_open_object(id): search_packidx and open_packed_object up to
\* the first call of resolve_delta_chain
OpenObject(id, nomem) ==
  /\ pc = "idle"
  /\ \E s \in {search_packidx(pack_cache, id, on_disk, nomem)} :
        /\ pack_cache' = s.cache
        /\ last_search' = SearchRecord(s, pack_cache, nomem)
        /\ mem' = NoResult
        /\ file' = NoResult
        /\ log' = {}
        /\ IF s.err # ""
             THEN Fail(s.err) /\ req' = [NoReq EXCEPT !.id = id] /\ fh' = NoFh
           ELSE
             \E offset \in {get_object_offset(s.packidx, s.idx)},
                pf \in {open_packfile(s.cache, s.packidx)} :
             \E h \in {HeaderAt(pf.packfile, offset)} :
             /\ req' = [id |-> id, path_packfile |-> pf.path_packfile,
                        offset |-> offset, tslen |-> h.tslen, type |-> h.type]
             /\ fh' = [dead |->
                         {u \in DeadUses(open_packed_object_uses(pf.packfile,
                                  pf.path_packfile, pf.is_cached),
                                s.cache, s.cache) :
                            u.call = "strdup" =>
                              /\ h.err = ""
                              /\ open_packed_object_kind(h.type) # "notimpl"},
                       evicted_held |-> FALSE]
             /\ IF h.err # "" THEN Fail(h.err)
                ELSE IF open_packed_object_kind(h.type) = "plain"
                  \* open_plain_object
                  THEN /\ obj' = [id |-> id, type |-> h.type, flags |-> {"PACKED"},
                                  path_packfile |-> pf.path_packfile,
                                  pack_offset |-> offset + h.tslen,
                                  size |-> h.size, deltas |-> EmptyChain]
                       /\ err' = ""
                       /\ UNCHANGED <<pc, frame, chain, depth>>
                ELSE IF open_packed_object_kind(h.type) = "delta"
                  \* open_delta_object, entering resolve_delta_chain
                  THEN /\ pc' = "resolve"
                       /\ frame' = [packfile |-> pf.packfile,
                                    path_packfile |-> pf.path_packfile,
                                    pack_cached |-> pf.is_cached,
                                    delta_offset |-> offset, tslen |-> h.tslen,
                                    delta_type |-> h.type, delta_size |-> h.size]
                       /\ chain' = EmptyChain
                       /\ depth' = 0
                       /\ obj' = NoObject
                       /\ err' = ""
                ELSE Fail("NotImpl")
  /\ UNCHANGED <<delta_cache, heap, ofs_in, ofs_out>>
  /\ UNCHANGED <<on_disk, cancel_req, idx_file, idx_open, idx_find,
                 aux_vars>>

\* resolve_delta_chain on a plain type: the chain is complete and
\* open_delta_object returns the object
ResolvePlain(cap) ==
  /\ pc = "resolve"
  /\ depth < cap
  /\ frame.delta_type \in PlainTypes
  /\ \E ds \in {add_delta(chain,
                  got_delta_open(frame.path_packfile, frame.delta_offset,
                    frame.tslen, frame.delta_type, frame.delta_size, 0))} :
     \E bt \in {got_delta_chain_get_base_type(ds)} :
        IF bt.err # "" THEN Fail(bt.err)
        ELSE /\ obj' = [id |-> req.id, type |-> bt.type,
                        flags |-> {"PACKED", "DELTIFIED"},
                        path_packfile |-> req.path_packfile,
                        pack_offset |-> req.offset + req.tslen,
                        size |-> 0, deltas |-> ds]
             /\ err' = ""
             /\ pc' = "idle"
             /\ frame' = NoFrame
             /\ chain' = EmptyChain
             /\ depth' = 0
  /\ UNCHANGED <<pack_cache, delta_cache, heap, req, last_search, mem, file,
                 log, ofs_in, ofs_out>>
  /\ UNCHANGED <<on_disk, cancel_req, idx_file, idx_open, idx_find,
                 aux_vars, fh>>

\* resolve_delta_chain on an OFS delta: resolve_offset_delta up to its
\* recursive call
ResolveOffsetDelta(cap) ==
  /\ pc = "resolve"
  /\ depth < cap
  /\ frame.delta_type = GOT_OBJ_TYPE_OFFSET_DELTA
  /\ \E r \in {parse_offset_delta(
                 HeaderAt(frame.packfile, frame.delta_offset).neg,
                 frame.delta_offset)} :
     \E h \in {HeaderAt(frame.packfile, r.base_offset)} :
        /\ fh' = [dead |->
                    {u \in DeadUses(resolve_offset_delta_uses(frame.packfile,
                             frame.path_packfile, frame.pack_cached),
                           pack_cache, pack_cache) :
                       r.err # "" => u.call = "fread"},
                  evicted_held |-> FALSE]
        /\ IF r.err # "" THEN Fail(r.err)
           ELSE IF h.err # "" THEN Fail(h.err)
           ELSE
             /\ frame' = [frame EXCEPT !.delta_offset = r.base_offset,
                                       !.tslen = h.tslen,
                                       !.delta_type = h.type,
                                       !.delta_size = h.size]
             /\ chain' = add_delta(chain,
                           got_delta_open(frame.path_packfile,
                             frame.delta_offset, frame.tslen, frame.delta_type,
                             frame.delta_size,
                             frame.delta_offset + frame.tslen + r.len))
             /\ depth' = depth + 1
             /\ UNCHANGED <<pc, obj, err>>
  /\ UNCHANGED <<pack_cache, delta_cache, heap, req, last_search, mem, file,
                 log, ofs_in, ofs_out>>
  /\ UNCHANGED <<on_disk, cancel_req, idx_file, idx_open, idx_find,
                 aux_vars>>

\* resolve_delta_chain on a REF delta: resolve_ref_delta up to its
\* recursive call
ResolveRefDelta(cap, nomem) ==
  /\ pc = "resolve"
  /\ depth < cap
  /\ frame.delta_type = GOT_OBJ_TYPE_REF_DELTA
  /\ \E s \in {search_packidx(pack_cache,
                 HeaderAt(frame.packfile, frame.delta_offset).ref,
                 on_disk, nomem)} :
        /\ pack_cache' = s.cache
        /\ last_search' = SearchRecord(s, pack_cache, nomem)
        /\ IF s.err # ""
             THEN /\ Fail(s.err)
                  /\ fh' = [dead |->
                              {u \in DeadUses(resolve_ref_delta_uses(
                                       frame.packfile, frame.path_packfile,
                                       frame.pack_cached, NULL, FALSE),
                                     pack_cache, s.cache) : ~u.searched},
                            evicted_held |-> FALSE]
           ELSE
             \E offset \in {get_object_offset(s.packidx, s.idx)},
                pf \in {open_packfile(s.cache, s.packidx)} :
             \E h \in {HeaderAt(pf.packfile, offset)} :
             /\ fh' = [dead |->
                         DeadUses(resolve_ref_delta_uses(frame.packfile,
                             frame.path_packfile, frame.pack_cached,
                             pf.packfile, pf.is_cached),
                           pack_cache, s.cache),
                       evicted_held |->
                         /\ frame.pack_cached
                         /\ \E k \in s.closed :
                              pack_cache[k].packfile = frame.packfile]
             /\ IF h.err # "" THEN Fail(h.err)
                ELSE
                  /\ frame' = [packfile |-> pf.packfile,
                               path_packfile |-> pf.path_packfile,
                               pack_cached |-> pf.is_cached,
                               delta_offset |-> offset, tslen |-> h.tslen,
                               delta_type |-> h.type, delta_size |-> h.size]
                  /\ chain' = add_delta(chain,
                                got_delta_open(frame.path_packfile,
                                  frame.delta_offset, frame.tslen,
                                  frame.delta_type, frame.delta_size,
                                  frame.delta_offset + frame.tslen
                                    + SHA1_DIGEST_LENGTH))
                  /\ depth' = depth + 1
                  /\ UNCHANGED <<pc, obj, err>>
  /\ UNCHANGED <<delta_cache, heap, req, mem, file, log, ofs_in, ofs_out>>
  /\ UNCHANGED <<on_disk, cancel_req, idx_file, idx_open, idx_find,
                 aux_vars>>

\* resolve_delta_chain on any other type code
ResolveUnknown(cap) ==
  /\ pc = "resolve"
  /\ depth < cap
  /\ frame.delta_type \notin PlainTypes \cup DeltaTypes
  /\ Fail("NotImpl")
  /\ UNCHANGED <<pack_cache, delta_cache, heap, req, last_search, mem, file,
                 log, ofs_in, ofs_out>>
  /\ UNCHANGED <<on_disk, cancel_req, idx_file, idx_open, idx_find,
                 aux_vars, fh>>

\* the recursion of resolve_delta_chain exhausts the stack
StackOverflow(cap) ==
  /\ pc = "resolve"
  /\ depth = cap
  /\ pc' = "crashed"
  /\ UNCHANGED <<pack_cache, delta_cache, heap, frame, chain, depth, req, obj,
                 err, last_search, mem, file, log, ofs_in, ofs_out>>
  /\ UNCHANGED <<on_disk, cancel_req, idx_file, idx_open, idx_find,
                 aux_vars, fh>>

\* How many packs are removed from objects/pack.
MaxDeleted == 1

\* the files of pack p are removed from objects/pack between two lookups;
\* handles opened before stay readable
DeletePack(p) ==
  /\ pc = "idle"
  /\ p \in on_disk
  /\ Cardinality(Packs \ on_disk) < MaxDeleted
  /\ on_disk' = on_disk \ {p}
  /\ UNCHANGED <<pack_cache, delta_cache, heap, pc, frame, chain, depth, req,
                 obj, err, last_search, mem, file, log, ofs_in, ofs_out,
                 cancel_req, idx_file, idx_open, idx_find,
                 aux_vars, fh>>

\* The caller asks for the running operations to stop.  No function of
\* pack.c takes a cancel predicate, so no action reads cancel_req.
RequestCancel ==
  /\ pc = "idle"
  /\ ~cancel_req
  /\ cancel_req' = TRUE
  /\ UNCHANGED <<pack_cache, delta_cache, heap, pc, frame, chain, depth, req,
                 obj, err, last_search, mem, file, log, ofs_in, ofs_out,
                 on_disk, idx_file, idx_open, idx_find, aux_vars, fh>>

\* The outcomes of reading freed memory matter only once a buffer was freed.
StaleChoices == IF \E b \in 1..Len(heap) : heap[b].frees > 0 THEN BOOLEAN ELSE {TRUE}

\* got_packfile_extract_object_to_mem(obj)
ExtractToMem(stale) ==
  /\ pc = "idle"
  /\ obj # NoObject
  /\ \E r \in {got_packfile_extract_object_to_mem(obj,
                 [dc |-> delta_cache, heap |-> heap, log |-> {}], stale)} :
        /\ Len(r.st.heap) <= MaxBufs
        /\ mem' = [done |-> TRUE, err |-> r.err, buf |-> r.buf]
        /\ delta_cache' = r.st.dc
        /\ heap' = r.st.heap
        /\ log' = r.st.log
  /\ UNCHANGED <<pack_cache, pc, frame, chain, depth, req, obj, err,
                 last_search, file, ofs_in, ofs_out>>
  /\ UNCHANGED <<on_disk, cancel_req, idx_file, idx_open, idx_find,
                 aux_vars, fh>>

\* got_packfile_extract_object(obj), then reading the file it returns
ExtractToFile(stale) ==
  /\ pc = "idle"
  /\ obj # NoObject
  /\ \E r \in {got_packfile_extract_object(obj,
                 [dc |-> delta_cache, heap |-> heap, log |-> {}], stale)} :
        /\ Len(r.st.heap) <= MaxBufs
        /\ file' = [done |-> TRUE, err |-> r.err, buf |-> r.buf]
        /\ delta_cache' = r.st.dc
        /\ heap' = r.st.heap
        /\ log' = r.st.log
  /\ UNCHANGED <<pack_cache, pc, frame, chain, depth, req, obj, err,
                 last_search, mem, ofs_in, ofs_out>>
  /\ UNCHANGED <<on_disk, cancel_req, idx_file, idx_open, idx_find,
                 aux_vars, fh>>

\* The ids the caller asks for in Spec: the objects of packs 1 to 3 that
\* are no malformed deltas.
SpecIds == {10, 11, 12, 21, 22, 23, 32}

Next ==
  \/ \E id \in SpecIds \cup {AbsentId} : OpenObject(id, FALSE)
  \/ ResolvePlain(RecursionCap)
  \/ ResolveOffsetDelta(RecursionCap)
  \/ ResolveRefDelta(RecursionCap, FALSE)
  \/ \E stale \in StaleChoices : ExtractToMem(stale)
  \/ \E stale \in StaleChoices : ExtractToFile(stale)
  \/ RequestCancel

Spec == Init /\ [][Next]_vars

\* Lookups only, of every id, also those of the malformed deltas.
NextResolve ==
  \/ \E id \in Ids \cup {AbsentId}, nomem \in BOOLEAN : OpenObject(id, nomem)
  \/ ResolvePlain(RecursionCap)
  \/ ResolveOffsetDelta(RecursionCap)
  \/ \E nomem \in BOOLEAN : ResolveRefDelta(RecursionCap, nomem)
  \/ ResolveUnknown(RecursionCap)
  \/ StackOverflow(RecursionCap)
  \/ \E p \in Packs : DeletePack(p)

SpecResolve == Init /\ [][NextResolve]_vars

(* ---------------------------------------------------------------------- *)
(* parse_offset_delta on its own: the bytes of a negative offset found at  *)
(* an OFS delta stored at some offset of a pack file.                      *)
(* ---------------------------------------------------------------------- *)

\* byte values the encodings are drawn from: 0x00, 0x80, 0xff
OfsBytes == {0, 128, 255}

\* offsets of the OFS delta
OfsOffsets == {100, 200}

OfsInputs ==
  UNION {[1..n -> OfsBytes] : n \in 1..MaxOfsLen}

InitOfs ==
  /\ pack_cache = [i \in PackSlots |-> EmptyPackSlot]
  /\ delta_cache = [i \in Buckets |-> EmptyBucket]
  /\ heap = <<>>
  /\ pc = "idle"
  /\ frame = NoFrame
  /\ chain = EmptyChain
  /\ depth = 0
  /\ req = NoReq
  /\ obj = NoObject
  /\ err = ""
  /\ last_search = NoSearch
  /\ mem = NoResult
  /\ file = NoResult
  /\ log = {}
  /\ ofs_in \in [bytes : OfsInputs, offset : OfsOffsets]
  /\ ofs_out = NoOfsOut
  /\ on_disk = Packs
  /\ cancel_req = FALSE
  /\ idx_file = NoIdxFile
  /\ idx_open = NoIdxOpen
  /\ idx_find = NoIdxFind
  /\ fh = NoFh
  /\ AuxInit

ParseOffsetDelta ==
  /\ ~ofs_out.done
  /\ \E r \in {parse_offset_delta(ofs_in.bytes, ofs_in.offset)} :
        ofs_out' = [done |-> TRUE, err |-> r.err, base_offset |-> r.base_offset]
  /\ UNCHANGED <<pack_cache, delta_cache, heap, pc, frame, chain, depth, req,
                 obj, err, last_search, mem, file, log, ofs_in>>
  /\ UNCHANGED <<on_disk, cancel_req, idx_file, idx_open, idx_find,
                 aux_vars, fh>>

NextOfs == ParseOffsetDelta

SpecOfs == InitOfs /\ [][NextOfs]_vars

(* ---------------------------------------------------------------------- *)
(* got_packidx_open and get_object_idx on their own: an index file is      *)
(* loaded and ids are looked up in the loaded index.                       *)
(* ---------------------------------------------------------------------- *)

\* the ids looked up: those the files are made of and one in no file
IdxLookups == IdxBytes \cup {7}

InitIdx ==
  /\ pack_cache = [i \in PackSlots |-> EmptyPackSlot]
  /\ delta_cache = [i \in Buckets |-> EmptyBucket]
  /\ heap = <<>>
  /\ pc = "idle"
  /\ frame = NoFrame
  /\ chain = EmptyChain
  /\ depth = 0
  /\ req = NoReq
  /\ obj = NoObject
  /\ err = ""
  /\ last_search = NoSearch
  /\ mem = NoResult
  /\ file = NoResult
  /\ log = {}
  /\ ofs_in = NoOfsIn
  /\ ofs_out = NoOfsOut
  /\ on_disk = Packs
  /\ cancel_req = FALSE
  /\ idx_file \in IdxFiles
  /\ idx_open = NoIdxOpen
  /\ idx_find = NoIdxFind
  /\ fh = NoFh
  /\ AuxInit

PackidxOpen ==
  /\ ~idx_open.done
  /\ \E r \in {got_packidx_open(idx_file)} :
        idx_open' = [done |-> TRUE, err |-> r.err, packidx |-> r.packidx,
                     fed |-> r.fed]
  /\ UNCHANGED <<pack_cache, delta_cache, heap, pc, frame, chain, depth, req,
                 obj, err, last_search, mem, file, log, ofs_in, ofs_out,
                 on_disk, cancel_req, idx_file, idx_find,
                 aux_vars, fh>>

GetObjectIdx(id) ==
  /\ idx_open.done
  /\ idx_open.err = ""
  /\ idx_find' = [done |-> TRUE, id |-> id,
                  idx |-> get_object_idx_of(idx_open.packidx, id),
                  examined |-> get_object_idx_reads(idx_open.packidx, id)]
  /\ UNCHANGED <<pack_cache, delta_cache, heap, pc, frame, chain, depth, req,
                 obj, err, last_search, mem, file, log, ofs_in, ofs_out,
                 on_disk, cancel_req, idx_file, idx_open,
                 aux_vars, fh>>

NextIdx ==
  \/ PackidxOpen
  \/ \E id \in IdxLookups : GetObjectIdx(id)

SpecIdx == InitIdx /\ [][NextIdx]_vars

(* ---------------------------------------------------------------------- *)
(* get_object_offset on indexes whose offsets[] entries point into the     *)
(* table of large offsets.                                                 *)
(* ---------------------------------------------------------------------- *)

MaxLoffObjs == 2

\* the entries of offsets[]: two plain offsets and every indirection index
\* up to one past nobj
LoffWords(nobj) ==
  {[large |-> FALSE, val |-> v] : v \in {12, 40}}
    \cup {[large |-> TRUE, val |-> k] : k \in 0..(nobj + 1)}

\* the entries of large_offsets[], and what lies behind the table
LoffEntries == {[over |-> FALSE, val |-> 5000], [over |-> TRUE, val |-> 0]}

LoffBeyond == {[over |-> FALSE, val |-> 7777], [over |-> TRUE, val |-> 0]}

LoffIndexes ==
  UNION {{[fanout_table |-> [x \in 0..255 |-> nobj], offsets |-> offs,
           large_offsets |-> large] :
            offs \in [1..nobj -> LoffWords(nobj)],
            large \in {<<>>} \cup [1..nobj -> LoffEntries]} :
         nobj \in 1..MaxLoffObjs}

InitLoff ==
  /\ pack_cache = [i \in PackSlots |-> EmptyPackSlot]
  /\ delta_cache = [i \in Buckets |-> EmptyBucket]
  /\ heap = <<>>
  /\ pc = "idle"
  /\ frame = NoFrame
  /\ chain = EmptyChain
  /\ depth = 0
  /\ req = NoReq
  /\ obj = NoObject
  /\ err = ""
  /\ last_search = NoSearch
  /\ mem = NoResult
  /\ file = NoResult
  /\ log = {}
  /\ ofs_in = NoOfsIn
  /\ ofs_out = NoOfsOut
  /\ on_disk = Packs
  /\ cancel_req = FALSE
  /\ idx_file = NoIdxFile
  /\ idx_open = NoIdxOpen
  /\ idx_find = NoIdxFind
  /\ fh = NoFh
  /\ \E x \in LoffIndexes : loff = [NoLoff EXCEPT !.packidx = x]
  /\ hdr = NoHdr
  /\ wt = NoWt
  /\ upd = NoUpd
  /\ scan = NoScan

\* offset = get_object_offset(packidx, idx) as open_packed_object and
\* resolve_ref_delta call it, with the error they make of -1
GetObjectOffset(idx, beyond) ==
  /\ ~loff.done
  /\ idx < loff.packidx.fanout_table[255]
  /\ \E r \in {get_object_offset_of(loff.packidx, idx, beyond)} :
        loff' = [loff EXCEPT !.done = TRUE, !.idx = idx, !.off = r.off,
                             !.reads = r.reads,
                             !.err = IF r.off = -1 THEN "BadPackIdx" ELSE ""]
  /\ UNCHANGED <<pack_cache, delta_cache, heap, pc, frame, chain, depth, req,
                 obj, err, last_search, mem, file, log, ofs_in, ofs_out,
                 on_disk, cancel_req, idx_file, idx_open, idx_find, hdr, wt,
                 upd, scan, fh>>

NextLoff ==
  \E idx \in 0..(MaxLoffObjs - 1), beyond \in LoffBeyond :
    GetObjectOffset(idx, beyond)

SpecLoff == InitLoff /\ [][NextLoff]_vars

(* ---------------------------------------------------------------------- *)
(* parse_object_type_and_size on files that hold a type+size header, whole *)
(* or cut short by the end of the file.                                    *)
(* ---------------------------------------------------------------------- *)

MaxHdrLen == 10

\* the low 7 bits of the bytes: 0x3f and 0x40
HdrVals == {63, 64}

\* the file of n bytes with these low bits, the continuation bit set in
\* all but the last byte, or in all bytes if the file is cut short
HdrFile(v, cut) ==
  [k \in 1..Len(v) |->
     IF k < Len(v) \/ cut THEN v[k] + GOT_PACK_OBJ_SIZE_MORE ELSE v[k]]

HdrFiles ==
  UNION {{HdrFile(v, cut) : v \in [1..n -> HdrVals], cut \in BOOLEAN} :
         n \in 1..MaxHdrLen}

UbChoices == {"wrap", "wide"}

InitHdr ==
  /\ pack_cache = [i \in PackSlots |-> EmptyPackSlot]
  /\ delta_cache = [i \in Buckets |-> EmptyBucket]
  /\ heap = <<>>
  /\ pc = "idle"
  /\ frame = NoFrame
  /\ chain = EmptyChain
  /\ depth = 0
  /\ req = NoReq
  /\ obj = NoObject
  /\ err = ""
  /\ last_search = NoSearch
  /\ mem = NoResult
  /\ file = NoResult
  /\ log = {}
  /\ ofs_in = NoOfsIn
  /\ ofs_out = NoOfsOut
  /\ on_disk = Packs
  /\ cancel_req = FALSE
  /\ idx_file = NoIdxFile
  /\ idx_open = NoIdxOpen
  /\ idx_find = NoIdxFind
  /\ fh = NoFh
  /\ loff = NoLoff
  /\ \E f \in HdrFiles : hdr = [NoHdr EXCEPT !.bytes = f]
  /\ wt = NoWt
  /\ upd = NoUpd
  /\ scan = NoScan

ParseTypeAndSize(ub) ==
  /\ ~hdr.done
  /\ \E r \in {parse_object_type_and_size(hdr.bytes, ub)} :
        hdr' = [bytes |-> hdr.bytes, done |-> TRUE, err |-> r.err,
                type |-> r.type, size |-> r.size, len |-> r.len, ub |-> ub]
  /\ UNCHANGED <<pack_cache, delta_cache, heap, pc, frame, chain, depth, req,
                 obj, err, last_search, mem, file, log, ofs_in, ofs_out,
                 on_disk, cancel_req, idx_file, idx_open, idx_find, loff, wt,
                 upd, scan, fh>>

NextHdr == \E ub \in UbChoices : ParseTypeAndSize(ub)

SpecHdr == InitHdr /\ [][NextHdr]_vars

(* ---------------------------------------------------------------------- *)
(* Callers that open and close work trees.                                 *)
(* ---------------------------------------------------------------------- *)

\* a work tree handle for the path is open
WtOpenOn(path) ==
  \E c \in WtCallers : wt.st[c].pc = "holding" /\ wt.st[c].path = path

\* got_worktree_open up to the open of the lock file.  If the open fails
\* the call is over (label done with fd = -1); else it goes on to read the
\* meta files.
WtOpenLock(c, path) ==
  /\ wt.st[c].pc \in {"idle", "holding"}
  /\ \E r \in {open_exlock(wt.lock, path, c)} :
        IF r.fd = -1
          THEN \E d \in {worktree_open_done(wt.lock, -1, "WorktreeBusy")} :
                 wt' = [wt EXCEPT
                          !.lock = d.lock,
                          !.last = [done |-> TRUE, caller |-> c, path |-> path,
                                    err |-> "WorktreeBusy",
                                    worktree |-> d.worktree,
                                    was_open |-> WtOpenOn(path)]]
          ELSE /\ wt.st[c].pc = "idle"
               /\ wt' = [wt EXCEPT
                           !.lock = r.lock,
                           !.st[c] = [pc |-> "opening", path |-> path,
                                      fd |-> r.fd, lockfd |-> -1]]
  /\ UNCHANGED <<pack_cache, delta_cache, heap, pc, frame, chain, depth, req,
                 obj, err, last_search, mem, file, log, ofs_in, ofs_out,
                 on_disk, cancel_req, idx_file, idx_open, idx_find, loff, hdr,
                 upd, scan, fh>>

\* the rest of got_worktree_open: the meta files are read and the work tree
\* is allocated, any of which may fail with e, then the label done
WtOpenFinish(c, e) ==
  /\ wt.st[c].pc = "opening"
  /\ \E d \in {worktree_open_done(wt.lock, wt.st[c].fd, e)} :
        wt' = [wt EXCEPT
                 !.lock = d.lock,
                 !.st[c] = IF d.worktree
                             THEN [pc |-> "holding", path |-> wt.st[c].path,
                                   fd |-> -1, lockfd |-> d.lockfd]
                             ELSE NoWtCall,
                 !.last = [done |-> TRUE, caller |-> c, path |-> wt.st[c].path,
                           err |-> e, worktree |-> d.worktree,
                           was_open |-> WtOpenOn(wt.st[c].path)]]
  /\ UNCHANGED <<pack_cache, delta_cache, heap, pc, frame, chain, depth, req,
                 obj, err, last_search, mem, file, log, ofs_in, ofs_out,
                 on_disk, cancel_req, idx_file, idx_open, idx_find, loff, hdr,
                 upd, scan, fh>>

WtClose(c) ==
  /\ wt.st[c].pc = "holding"
  /\ wt' = [wt EXCEPT
              !.lock = got_worktree_close(wt.lock, wt.st[c].lockfd),
              !.st[c] = NoWtCall,
              !.closed = wt.closed \cup {wt.st[c].path}]
  /\ UNCHANGED <<pack_cache, delta_cache, heap, pc, frame, chain, depth, req,
                 obj, err, last_search, mem, file, log, ofs_in, ofs_out,
                 on_disk, cancel_req, idx_file, idx_open, idx_find, loff, hdr,
                 upd, scan, fh>>

NextWt ==
  \/ \E c \in WtCallers, path \in WtPaths : WtOpenLock(c, path)
  \/ \E c \in WtCallers, e \in WtOpenErrors : WtOpenFinish(c, e)
  \/ \E c \in WtCallers : WtClose(c)

SpecWt == Init /\ [][NextWt]_vars

(* ---------------------------------------------------------------------- *)
(* Runs of got update on histories of up to MaxCommits commits.            *)
(* ---------------------------------------------------------------------- *)

MaxCommits == 3

Commits == 1..MaxCommits

\* the histories: sequences of distinct commits
Histories ==
  UNION {{h \in [1..n -> Commits] :
            \A i \in 1..n : \A j \in 1..n : i # j => h[i] # h[j]} :
         n \in 1..MaxCommits}

InitUpd ==
  /\ pack_cache = [i \in PackSlots |-> EmptyPackSlot]
  /\ delta_cache = [i \in Buckets |-> EmptyBucket]
  /\ heap = <<>>
  /\ pc = "idle"
  /\ frame = NoFrame
  /\ chain = EmptyChain
  /\ depth = 0
  /\ req = NoReq
  /\ obj = NoObject
  /\ err = ""
  /\ last_search = NoSearch
  /\ mem = NoResult
  /\ file = NoResult
  /\ log = {}
  /\ ofs_in = NoOfsIn
  /\ ofs_out = NoOfsOut
  /\ on_disk = Packs
  /\ cancel_req = FALSE
  /\ idx_file = NoIdxFile
  /\ idx_open = NoIdxOpen
  /\ idx_find = NoIdxFind
  /\ fh = NoFh
  /\ loff = NoLoff
  /\ hdr = NoHdr
  /\ wt = NoWt
  /\ scan = NoScan
  /\ \E h \in Histories, c \in Commits, b \in Commits :
        upd = [NoUpd EXCEPT !.pc = "walk", !.hist = h, !.commit_id = c,
                            !.base0 = b, !.base = b]

\* the signal handlers catch_sigint and catch_sigpipe
CatchSignal(sig) ==
  /\ upd.pc \in {"walk", "checked"}
  /\ upd' = IF sig = "SIGINT" THEN [upd EXCEPT !.sigint_received = TRUE]
            ELSE [upd EXCEPT !.sigpipe_received = TRUE]
  /\ UNCHANGED <<pack_cache, delta_cache, heap, pc, frame, chain, depth, req,
                 obj, err, last_search, mem, file, log, ofs_in, ofs_out,
                 on_disk, cancel_req, idx_file, idx_open, idx_find, loff, hdr,
                 wt, scan, fh>>

\* one pass of the loop of check_ancestry
AncestryPass(more, fetch_err) ==
  /\ upd.pc = "walk"
  /\ \E r \in {check_ancestry_pass(upd.hist, upd.commit_id, upd.pos, upd.err,
                   upd.sigint_received \/ upd.sigpipe_received, more,
                   fetch_err)} :
        upd' = [upd EXCEPT !.pc = IF r.left THEN "checked" ELSE "walk",
                           !.err = r.err, !.pos = r.pos, !.found = r.found]
  /\ UNCHANGED <<pack_cache, delta_cache, heap, pc, frame, chain, depth, req,
                 obj, err, last_search, mem, file, log, ofs_in, ofs_out,
                 on_disk, cancel_req, idx_file, idx_open, idx_find, loff, hdr,
                 wt, scan, fh>>

\* cmd_update after check_ancestry: the base commit is changed unless
\* check_ancestry returned an error
UpdateBase ==
  /\ upd.pc = "checked"
  /\ upd' = [upd EXCEPT !.pc = "done",
                        !.base = update_base_commit(upd.base, upd.commit_id,
                                                    upd.err)]
  /\ UNCHANGED <<pack_cache, delta_cache, heap, pc, frame, chain, depth, req,
                 obj, err, last_search, mem, file, log, ofs_in, ofs_out,
                 on_disk, cancel_req, idx_file, idx_open, idx_find, loff, hdr,
                 wt, scan, fh>>

NextUpd ==
  \/ \E sig \in {"SIGINT", "SIGPIPE"} : CatchSignal(sig)
  \/ \E more \in BOOLEAN, fetch_err \in {"", "Errno"} :
       AncestryPass(more, fetch_err)
  \/ UpdateBase

SpecUpd == InitUpd /\ [][NextUpd]_vars

(* ---------------------------------------------------------------------- *)
(* Lookups in a directory objects/pack whose index files may fail to       *)
(* open: search_packidx and the handles of got_packfile_open_object.       *)
(* ---------------------------------------------------------------------- *)

\* the packs whose index files are in the directory
ScanPacks == {1, 2, 3}

\* the orders in which readdir may return them
ScanOrders ==
  {o \in [1..Cardinality(ScanPacks) -> ScanPacks] :
     \A i \in DOMAIN o : \A j \in DOMAIN o : i # j => o[i] # o[j]}

ScanDirs ==
  {[n \in DOMAIN o |-> [pack |-> o[n], idx |-> st[o[n]]]] :
     o \in ScanOrders, st \in [ScanPacks -> IdxStates]}

\* the ids looked up: the blob of each pack and an id in no pack
ScanIds == {10, 20, 30, AbsentId}

InitScan ==
  /\ pack_cache = [i \in PackSlots |-> EmptyPackSlot]
  /\ delta_cache = [i \in Buckets |-> EmptyBucket]
  /\ heap = <<>>
  /\ pc = "idle"
  /\ frame = NoFrame
  /\ chain = EmptyChain
  /\ depth = 0
  /\ req = NoReq
  /\ obj = NoObject
  /\ err = ""
  /\ last_search = NoSearch
  /\ mem = NoResult
  /\ file = NoResult
  /\ log = {}
  /\ ofs_in = NoOfsIn
  /\ ofs_out = NoOfsOut
  /\ on_disk = Packs
  /\ cancel_req = FALSE
  /\ idx_file = NoIdxFile
  /\ idx_open = NoIdxOpen
  /\ idx_find = NoIdxFind
  /\ fh = NoFh
  /\ loff = NoLoff
  /\ hdr = NoHdr
  /\ wt = NoWt
  /\ upd = NoUpd
  /\ \E d \in ScanDirs : scan = [NoScan EXCEPT !.dir = d]

\* got_packfile_open_object(id) in the directory scan.dir, for an object of
\* a plain type: search_packidx, then open_packed_object with its
\* open_packfile and its label done
ScanLookup(id) ==
  /\ \E s \in {search_packidx_dir(pack_cache, id, scan.dir)} :
     \E shut \in {{pack_cache[k].packfile : k \in s.closed}} :
     \E pf \in {IF s.err = "" THEN open_packfile(s.cache, s.packidx)
                 ELSE [packfile |-> NULL, path_packfile |-> NULL,
                       is_cached |-> TRUE]} :
     \E fin \in {IF s.err = ""
                    THEN open_packed_object_done(pf.packfile, pf.is_cached)
                    ELSE {}} :
        /\ pack_cache' = s.cache
        /\ scan' = [scan EXCEPT
              !.done = TRUE, !.id = id, !.err = s.err, !.hit = s.hit,
              !.examined = s.examined, !.before = pack_cache,
              !.idx_open = @ \cup s.idx_left_open,
              !.pack_open = (@ \ shut) \cup
                              (IF s.inserted THEN {s.packidx} ELSE {}),
              !.own_open = (IF s.err = "" /\ ~pf.is_cached
                              THEN {pf.packfile} ELSE {}) \ fin,
              !.bad_close = @ \cup (shut \ scan.pack_open)
                              \cup (IF pf.is_cached THEN fin ELSE {})]
  /\ UNCHANGED <<delta_cache, heap, pc, frame, chain, depth, req, obj, err,
                 last_search, mem, file, log, ofs_in, ofs_out, on_disk,
                 cancel_req, idx_file, idx_open, idx_find, loff, hdr, wt, upd,
                 fh>>

NextScan == \E id \in ScanIds : ScanLookup(id)

SpecScan == InitScan /\ [][NextScan]_vars

(* ---------------------------------------------------------------------- *)
(* Properties.                                                             *)
(* ---------------------------------------------------------------------- *)

\* The entry of the fixture that a chain entry stands for.
EntryOf(d) == CHOOSE e \in PackEntries[d.path_packfile] : e.off = d.offset

\* The bytes of the object a chain stands for: the plain base inflated from
\* the pack that holds it, then each delta, inflated from the pack that
\* holds it, applied in chain order.
RECURSIVE TrueApply(_, _, _)
TrueApply(entries, k, base) ==
  IF k > Len(entries) THEN [err |-> "", buf |-> base]
  ELSE LET r == got_delta_apply(base, EntryOf(entries[k]).z)
       IN IF r.err # "" THEN r ELSE TrueApply(entries, k + 1, r.buf)

TrueBytes(o) == TrueApply(o.deltas.entries, 2, EntryOf(o.deltas.entries[1]).z)

CrossPack(o) ==
  \E i \in 1..Len(o.deltas.entries) :
    o.deltas.entries[i].path_packfile # o.path_packfile

\* C1: an object whose delta chain crosses pack files is extracted, to
\* memory and to a file, as the deltas applied in order to the true base,
\* each chain entry read from the pack it was resolved in.
C1_CrossPackBytes ==
  /\ (mem.done /\ CrossPack(obj)) =>
       (mem.err = "" /\ mem.buf = TrueBytes(obj).buf)
  /\ (file.done /\ CrossPack(obj)) =>
       (file.err = "" /\ file.buf = TrueBytes(obj).buf)

\* C2: delta-chain resolution reaches a plain base or an error within 50
\* nested steps; it never recurses beyond that and never exhausts the stack.
C2_DepthBounded == depth <= 50 /\ pc # "crashed"

\* C3: resolving the negative offset of an OFS delta stored at offset o
\* either fails with BadPackFile or continues at a base offset b with
\* 0 < b < o, for every complete encoding of at most 9 bytes.
C3_BaseBelowDelta ==
  (ofs_out.done /\ parse_negative_offset(ofs_in.bytes).err = "") =>
    \/ ofs_out.err = "BadPackFile"
    \/ /\ ofs_out.err = ""
       /\ 0 < ofs_out.base_offset
       /\ ofs_out.base_offset < ofs_in.offset

\* The pack and offset of the base of a delta entry of the fixture.
BaseOf(d) ==
  LET e == EntryOf(d)
  IN IF e.type = GOT_OBJ_TYPE_OFFSET_DELTA
       THEN [path_packfile |-> d.path_packfile,
             offset |-> d.offset - I64Low(parse_negative_offset(e.neg).o)]
       ELSE LET p == CHOOSE p \in Packs : \E b \in PackEntries[p] : b.id = e.ref
            IN [path_packfile |-> p,
                offset |-> (CHOOSE b \in PackEntries[p] : b.id = e.ref).off]

\* C4: the chain of a deltified object returned by a lookup is base first:
\* entry 1 is the plain base, every later entry is an OFS or REF delta whose
\* base is the entry before it, the last entry is the delta stored at the
\* requested object's own offset, and nentries counts the entries.
C4_ChainBaseFirst ==
  (obj # NoObject /\ "DELTIFIED" \in obj.flags) =>
    LET es == obj.deltas.entries
    IN /\ obj.deltas.nentries = Len(es)
       /\ Len(es) >= 2
       /\ es[1].type \in PlainTypes
       /\ \A i \in 2..Len(es) :
            /\ es[i].type \in DeltaTypes
            /\ BaseOf(es[i]).path_packfile = es[i - 1].path_packfile
            /\ BaseOf(es[i]).offset = es[i - 1].offset
       /\ es[Len(es)].offset = req.offset
       /\ es[Len(es)].path_packfile = req.path_packfile

C4_Witness ==
  /\ obj.id = 23
  /\ Len(obj.deltas.entries) = 3
  /\ obj.deltas.entries[1].path_packfile = 1
  /\ obj.deltas.entries[3].path_packfile = 2

\* C5: an object a lookup returns has a plain type, for a delta entry the
\* type of the plain base its chain ends in; an entry whose type code is
\* none of 1, 2, 3, 4, 6, 7 yields NotImpl and no object.
C5_PlainTypeSurfaced ==
  /\ obj # NoObject => obj.type \in PlainTypes
  /\ (obj # NoObject /\ "DELTIFIED" \in obj.flags) =>
       obj.type = EntryOf(obj.deltas.entries[1]).type
  /\ (pc = "idle" /\ req.path_packfile # NULL
      /\ req.type \notin {1, 2, 3, 4, 6, 7}) =>
       (err = "NotImpl" /\ obj = NoObject)

C5_Witness ==
  /\ obj.id = 22
  /\ "DELTIFIED" \in obj.flags
  /\ req.type = GOT_OBJ_TYPE_REF_DELTA
  /\ obj.type = GOT_OBJ_TYPE_BLOB

\* C6: once both extractions of the object were made, the bytes extracted
\* to memory equal the contents of the file extracted.
C6_MemEqualsFile ==
  (mem.done /\ file.done) => (mem.err = file.err /\ mem.buf = file.buf)

\* What a repository handle with an empty delta cache extracts for obj.
FreshExtract(o) ==
  got_packfile_extract_object_to_mem(o,
    [dc |-> [i \in Buckets |-> EmptyBucket], heap |-> <<>>, log |-> {}], TRUE)

\* C7: whatever lookups and extractions came before, an extraction returns
\* what a handle with empty caches returns.
C7_CacheTransparent ==
  /\ mem.done => (mem.err = FreshExtract(obj).err /\ mem.buf = FreshExtract(obj).buf)
  /\ file.done => (file.err = FreshExtract(obj).err /\ file.buf = FreshExtract(obj).buf)

\* C8: the delta cache is consulted and filled under the path of the pack
\* that contains the delta, and a hit returns the inflated bytes of the
\* delta at that offset of that pack.
C8_KeyedByDeltaPack ==
  \A l \in log :
    /\ l.key_path = l.delta_path
    /\ l.hit => l.bytes = InflateAt(l.delta_path, l.data_offset).buf

\* the slots of the delta cache that hold a buffer
BufSlots ==
  {<<b, i>> \in Buckets \X EntrySlots : delta_cache[b].deltas[i].delta_buf # NULL}

\* C9: every cached delta buffer sits in exactly one slot, a bucket holds
\* only buffers cached under its own path, and no buffer is freed twice.
C9_BufferOwnedOnce ==
  /\ \A s \in BufSlots : \A t \in BufSlots :
       delta_cache[s[1]].deltas[s[2]].delta_buf
         = delta_cache[t[1]].deltas[t[2]].delta_buf => s = t
  /\ \A s \in BufSlots :
       heap[delta_cache[s[1]].deltas[s[2]].delta_buf].path_packfile
         = delta_cache[s[1]].path_packfile
  /\ \A b \in 1..Len(heap) : heap[b].frees <= 1

\* C10: after search_packidx found the id in pack cache slot i, that pack is
\* in slot 1, the packs of slots 1..i-1 moved down by one slot and the
\* slots after i are as before.
C10_MoveToFrontOnHit ==
  last_search.hit > 0 =>
    /\ pack_cache[1].packidx = last_search.packidx
    /\ \A k \in PackSlots :
         /\ (k < last_search.hit => pack_cache[k + 1] = last_search.before[k])
         /\ (k > last_search.hit => pack_cache[k] = last_search.before[k])

BucketOf(path_packfile) ==
  delta_cache[FirstOr({b \in Buckets :
                         delta_cache[b].path_packfile = path_packfile}, 1)]

\* C12: after an extraction whose only delta was found in the delta cache,
\* the entry that was hit is the first entry of its bucket.
C12_HitMovesToFront ==
  \A l \in log :
    (l.hit /\ Cardinality(log) = 1) =>
      BucketOf(l.key_path).deltas[1].data_offset = l.data_offset

\* C13: the occupied slots of the pack cache are a prefix of the array, and
\* no two occupied slots hold the same path.
C13_CacheSlotsPrefix ==
  /\ \A i \in PackSlots :
       pack_cache[i].packidx # NULL =>
         \A j \in 1..(i - 1) : pack_cache[j].packidx # NULL
  /\ \A i \in PackSlots : \A j \in PackSlots :
       (i # j /\ pack_cache[i].packidx # NULL /\ pack_cache[j].packidx # NULL)
         => pack_cache[i].path_packfile # pack_cache[j].path_packfile

\* the id is in no cached index and in no index of objects/pack
InNoIndex(id) ==
  /\ \A k \in PackSlots :
       pack_cache[k].packidx # NULL => get_object_idx(pack_cache[k].packidx, id) = -1
  /\ \A p \in on_disk : get_object_idx(p, id) = -1

\* C14: a lookup of an id that is in no cached index and in no index of
\* objects/pack returns NoObj and no object and changes neither the pack
\* cache nor the delta cache.
C14_AbsentIdNoObj ==
  [][\A id \in Ids \cup {AbsentId} : \A nomem \in BOOLEAN :
       (InNoIndex(id) /\ OpenObject(id, nomem)) =>
         /\ err' = "NoObj"
         /\ obj' = NoObject
         /\ pc' = "idle"
         /\ pack_cache' = pack_cache
         /\ delta_cache' = delta_cache]_vars

C14_Witness ==
  /\ req.id = AbsentId
  /\ err = "NoObj"
  /\ last_search.scanned
  /\ pack_cache[PackCacheSize].packidx # NULL
  /\ delta_cache[1].path_packfile # NULL

\* the id is a REF delta of a pack in objects/pack whose base is held by a
\* pack that was deleted
RefBaseDeleted(id) ==
  \E p \in on_disk : \E e \in PackEntries[p] :
    /\ e.id = id
    /\ e.type = GOT_OBJ_TYPE_REF_DELTA
    /\ \E q \in Packs \ on_disk : \E b \in PackEntries[q] : b.id = e.ref

\* C15: a lookup of a REF delta whose base is in a deleted pack, made after
\* the deletion and with no allocation failing, ends with NoObj and no
\* object.
C15_DeletedBaseNoObj ==
  [][(pc = "resolve" /\ pc' = "idle" /\ RefBaseDeleted(req.id)
      /\ err' # "NoMem") =>
       (err' = "NoObj" /\ obj' = NoObject)]_vars

\* C16: once the caller has asked to stop, an extraction that applies a
\* delta and a lookup that scans objects/pack return Cancelled.
C16_CancelObserved ==
  [][cancel_req =>
       /\ (mem' # mem /\ mem'.done /\ "DELTIFIED" \in obj.flags)
            => mem'.err = "Cancelled"
       /\ (file' # file /\ file'.done /\ "DELTIFIED" \in obj.flags)
            => file'.err = "Cancelled"
       /\ (last_search' # last_search /\ last_search'.scanned)
            => err' = "Cancelled"]_vars

\* the fanout table of the file is non-decreasing over all 256 entries and
\* its ids are strictly ascending
IdxWellOrdered(f) ==
  /\ \A i \in 0..254 : f.fanout_table[i] <= f.fanout_table[i + 1]
  /\ \A i \in 1..(Len(f.sorted_ids) - 1) : f.sorted_ids[i] < f.sorted_ids[i + 1]

\* C17: an index file that got_packidx_open loads has a non-decreasing
\* fanout table (all 255 adjacent pairs) and strictly ascending ids; a file
\* with the right magic, version and trailing digest that has not is
\* rejected with BadPackIdx.
C17_LoadedIndexOrdered ==
  idx_open.done =>
    /\ idx_open.err = "" => IdxWellOrdered(idx_file)
    /\ (idx_file.magic = GOT_PACKIDX_V2_MAGIC
        /\ idx_file.version = GOT_PACKIDX_VERSION
        /\ idx_file.trailer.packidx_sha1
             = IdxFileDigest(idx_file.magic, idx_file.version,
                 idx_file.fanout_table, idx_file.sorted_ids, idx_file.crc32,
                 idx_file.offsets, idx_file.large_offsets,
                 idx_file.trailer.packfile_sha1)
        /\ ~IdxWellOrdered(idx_file)) => idx_open.err = "BadPackIdx"

\* the answer of get_object_idx is right: an index below N that holds the id
\* if the id is in the index, -1 if it is not, and no read at or beyond N
FindExact ==
  /\ (\E i \in 1..Len(idx_open.packidx.sorted_ids) :
        idx_open.packidx.sorted_ids[i] = idx_find.id)
       => /\ idx_find.idx \in 0..(Len(idx_open.packidx.sorted_ids) - 1)
          /\ idx_open.packidx.sorted_ids[idx_find.idx + 1] = idx_find.id
  /\ (\A i \in 1..Len(idx_open.packidx.sorted_ids) :
        idx_open.packidx.sorted_ids[i] # idx_find.id) => idx_find.idx = -1
  /\ idx_find.examined \subseteq 0..(Len(idx_open.packidx.sorted_ids) - 1)

FanoutCountsIds(f) ==
  \A b \in 0..255 :
    f.fanout_table[b]
      = Cardinality({i \in 1..Len(f.sorted_ids) : f.sorted_ids[i] <= b})

C19_SearchInBucket ==
  (idx_find.done /\ IdxWellOrdered(idx_file) /\ FanoutCountsIds(idx_file)) =>
    /\ idx_find.examined \subseteq
         (IF idx_find.id > 0 THEN idx_open.packidx.fanout_table[idx_find.id - 1]
          ELSE 0)..(idx_open.packidx.fanout_table[idx_find.id] - 1)
    /\ idx_find.idx # -1 =>
         idx_find.idx \in
           (IF idx_find.id > 0 THEN idx_open.packidx.fanout_table[idx_find.id - 1]
            ELSE 0)..(idx_open.packidx.fanout_table[idx_find.id] - 1)

\* C20: when got_packidx_open gets as far as the digests, it has fed SHA-1
\* every field of the file that precedes the stored index digest, in file
\* order; it fails with PackIdxCsum and hands back no index if the digest of
\* these differs from the stored one, and succeeds if they are equal.
C20_DigestChecked ==
  (idx_open.done /\ idx_open.err # "BadPackIdx") =>
    /\ [sha1 |-> idx_open.fed]
         = IdxFileDigest(idx_file.magic, idx_file.version,
             idx_file.fanout_table, idx_file.sorted_ids, idx_file.crc32,
             idx_file.offsets, idx_file.large_offsets,
             idx_file.trailer.packfile_sha1)
    /\ ([sha1 |-> idx_open.fed] # idx_file.trailer.packidx_sha1)
         => (idx_open.err = "PackIdxCsum" /\ idx_open.packidx = NullPackidx)
    /\ ([sha1 |-> idx_open.fed] = idx_file.trailer.packidx_sha1)
         => (idx_open.err = "" /\ idx_open.packidx # NullPackidx)

C20_Witness ==
  /\ idx_open.done
  /\ idx_open.err = "PackIdxCsum"
  /\ Len(idx_file.sorted_ids) = MaxIdxObjs
  /\ idx_file.packfile_size_big

\* C21: get_object_offset returns the low 31 bits of an entry of offsets[]
\* whose top bit is clear; for an entry whose top bit is set it reads
\* large_offsets[] only at indices below the number of entries loaded, and
\* the caller gets BadPackIdx if the indirection index is at or beyond that
\* number (in particular if no table was loaded).
C21_LargeOffsetInTable ==
  loff.done =>
    IF loff.packidx.offsets[loff.idx + 1].large
      THEN /\ loff.reads \subseteq 0..(Len(loff.packidx.large_offsets) - 1)
           /\ loff.packidx.offsets[loff.idx + 1].val
                  >= Len(loff.packidx.large_offsets)
                => (loff.off = -1 /\ loff.err = "BadPackIdx")
      ELSE /\ loff.off = loff.packidx.offsets[loff.idx + 1].val
           /\ loff.err = ""
           /\ loff.reads = {}

\* the file holds a whole header of at most 10 bytes: one of its first 10
\* bytes has no continuation bit
HdrWhole(bytes) ==
  \E k \in 1..Len(bytes) : k <= 10 /\ bytes[k] < GOT_PACK_OBJ_SIZE_MORE

\* the length of that header
HdrLen(bytes) ==
  CHOOSE k \in 1..Len(bytes) :
    /\ bytes[k] < GOT_PACK_OBJ_SIZE_MORE
    /\ \A j \in 1..(k - 1) : bytes[j] >= GOT_PACK_OBJ_SIZE_MORE

\* C22: a header of at most 10 bytes is accepted and its length returned; a
\* header whose 10th byte still has the continuation bit, or that the end
\* of the file cuts short, is rejected with BadPackFile and no type, size
\* or length is written.
C22_HeaderLengthOrBadPackFile ==
  hdr.done =>
    IF HdrWhole(hdr.bytes)
      THEN hdr.err = "" /\ hdr.len = HdrLen(hdr.bytes)
      ELSE /\ hdr.err = "BadPackFile"
           /\ hdr.type = -1
           /\ hdr.size = {}
           /\ hdr.len = -1

\* the bits of sum (byte_i & 0x7f) * 2^(4 + 7 * (i - 1)) over the bytes
\* i >= 1 of a header of len bytes, plus the low 4 bits of its first byte,
\* modulo 2^64
HdrSizeBits(bytes, len) ==
  {b \in 0..63 :
     \/ b \in BitsOf(bytes[1] % 16)
     \/ \E i \in 1..(len - 1) :
          \E k \in BitsOf(bytes[i + 1] % 128) : b = 4 + 7 * (i - 1) + k}

\* C26: for a whole header of at most 10 bytes the type returned is bits 4
\* to 6 of the first byte and the size returned is the sum of the size bits
\* of the bytes at their weights, in unsigned 64-bit arithmetic.
C26_SizeDecodedExactly ==
  (hdr.done /\ HdrWhole(hdr.bytes)) =>
    /\ hdr.err = ""
    /\ hdr.type = (hdr.bytes[1] % 128) \div 16
    /\ hdr.size = HdrSizeBits(hdr.bytes, HdrLen(hdr.bytes))

\* the bytes hold a whole negative offset: one of the first 9 bytes has no
\* continuation bit
OfsWhole(bytes) ==
  \E k \in 1..Len(bytes) : k <= 9 /\ bytes[k] < GOT_PACK_OBJ_DELTA_OFF_MORE

\* its length
OfsLen(bytes) ==
  CHOOSE k \in 1..Len(bytes) :
    /\ bytes[k] < GOT_PACK_OBJ_DELTA_OFF_MORE
    /\ \A j \in 1..(k - 1) : bytes[j] >= GOT_PACK_OBJ_DELTA_OFF_MORE

\* the 7 value bits of byte k of the encoding, 0 beyond its end
OfsVal(bytes, k) ==
  IF k <= OfsLen(bytes) THEN bytes[k] % (GOT_PACK_OBJ_DELTA_OFF_VAL_MASK + 1)
  ELSE 0

\* C27: the negative offset is the little-endian value of the 7-bit groups,
\* first byte least significant: the base offset is the offset of the delta
\* minus that value, and BadPackFile is returned if that is not positive.
C27_OffsetLittleEndian ==
  (ofs_out.done /\ OfsWhole(ofs_in.bytes)) =>
    IF \/ \E k \in 3..9 : OfsVal(ofs_in.bytes, k) # 0
       \/ OfsVal(ofs_in.bytes, 1) + 128 * OfsVal(ofs_in.bytes, 2)
            >= ofs_in.offset
      THEN ofs_out.err = "BadPackFile"
      ELSE /\ ofs_out.err = ""
           /\ ofs_out.base_offset
                = ofs_in.offset
                    - (OfsVal(ofs_in.bytes, 1) + 128 * OfsVal(ofs_in.bytes, 2))

\* C29: no two open work tree handles are on the same path and each holds
\* the lock of its path; a got_worktree_open made while a handle on the
\* path is open fails with WorktreeBusy and hands back no work tree; a lock
\* is held only by a call in progress or by an open handle, so that a
\* failed open has released its lock and an open after got_worktree_close
\* finds the lock free.
C29_OneHandlePerPath ==
  /\ \A c \in WtCallers : \A d \in WtCallers :
       (c # d /\ wt.st[c].pc = "holding" /\ wt.st[d].pc = "holding")
         => wt.st[c].path # wt.st[d].path
  /\ \A c \in WtCallers :
       wt.st[c].pc = "holding"
         => (wt.st[c].lockfd # -1 /\ wt.lock[wt.st[c].path] = wt.st[c].lockfd)
  /\ (wt.last.done /\ wt.last.was_open)
       => (wt.last.err = "WorktreeBusy" /\ ~wt.last.worktree)
  /\ (wt.last.done /\ wt.last.err # "") => ~wt.last.worktree
  /\ \A path \in WtPaths :
       wt.lock[path] # 0 =>
         \E c \in WtCallers :
            /\ wt.st[c].path = path
            /\ \/ wt.st[c].pc = "opening" /\ wt.st[c].fd = wt.lock[path]
               \/ wt.st[c].pc = "holding" /\ wt.st[c].lockfd = wt.lock[path]

\* a work tree was closed and is open again, after an open of it by another
\* caller failed
C29_Witness ==
  \E c \in WtCallers :
    /\ wt.st[c].pc = "holding"
    /\ wt.st[c].path \in wt.closed
    /\ wt.last.done
    /\ wt.last.caller # c
    /\ wt.last.path = wt.st[c].path
    /\ wt.last.err = "WorktreeBusy"
    /\ wt.last.was_open

\* C30: cmd_update leaves the base commit of the work tree as it was
\* unless the walk of check_ancestry found the commit id in the history of
\* the head.
C30_BaseChangedOnlyIfFound ==
  upd.base # upd.base0 => upd.found

\* C23: a lookup that found its id in a pack that was in the pack cache
\* when the lookup began did not scan objects/pack, and open_packfile gives
\* it the file handle and the path of the cache entry of that pack.
C23_CachedPackAnswersLookup ==
  (/\ last_search.err = ""
   /\ \E k \in DOMAIN last_search.before :
        last_search.before[k].packidx = last_search.packidx)
    => /\ ~last_search.scanned
       /\ last_search.hit \in PackSlots
       /\ open_packfile(pack_cache, last_search.packidx)
            = [packfile |-> pack_cache[last_search.hit].packfile,
               path_packfile |-> pack_cache[last_search.hit].path_packfile,
               is_cached |-> TRUE]

\* C28: no step of a lookup calls fseeko, fread or ftello on a pack file
\* handle of the pack cache that cache_pack has closed, and none uses a
\* path of the pack cache that cache_pack has freed.
C28_NoUseOfEvictedHandle ==
  fh.dead = {}

\* the search for the base of a REF delta closed the handle the delta was
\* being read from, in a full cache
C28_Witness ==
  /\ fh.evicted_held
  /\ last_search.inserted
  /\ FirstFreePackSlot(last_search.before) = PackCacheSize + 1
  /\ pc = "resolve"

\* C24: when a lookup has returned, with or without an error, no index
\* file handle is open, the open pack file handles are those of the
\* entries of the pack cache, the lookup has left no handle of its own
\* open, and no handle was closed twice or closed by a lookup although the
\* pack cache owns it.
C24_HandlesAccountedFor ==
  scan.done =>
    /\ scan.idx_open = {}
    /\ scan.pack_open = CacheOwned(pack_cache)
    /\ scan.own_open = {}
    /\ scan.bad_close = {}

\* the index file at position n of the directory fails to open
ScanFails(n) == got_packidx_open_file(scan.dir[n].idx).err # ""

\* C25: a lookup that scanned the directory and returned an error other
\* than NoObj returned the error of the last index file it opened, every
\* index file opened before that one opened without error, and the pack
\* cache is as it was; a scan that returned NoObj opened every index file
\* of the directory without error; and a scan that comes to an index file
\* that fails to open goes no further.
C25_FirstBadIndexEndsScan ==
  (scan.done /\ scan.hit = 0) =>
    /\ \A n \in DOMAIN scan.examined : scan.examined[n] = scan.dir[n].pack
    /\ \A n \in DOMAIN scan.examined :
         ScanFails(n) => n = Len(scan.examined)
    /\ scan.err \notin {"", "NoObj"} =>
         /\ scan.examined # <<>>
         /\ scan.err = got_packidx_open_file(
                         scan.dir[Len(scan.examined)].idx).err
         /\ pack_cache = scan.before
    /\ scan.err = "NoObj" =>
         /\ Len(scan.examined) = Len(scan.dir)
         /\ \A n \in DOMAIN scan.dir : ~ScanFails(n)
         /\ \A n \in DOMAIN scan.dir :
              get_object_idx(scan.dir[n].pack, scan.id) = -1
         /\ pack_cache = scan.before
    /\ (scan.examined # <<>> /\ ScanFails(Len(scan.examined))) =>
         scan.err \notin {"", "NoObj"}

\* a scan ended by the second index file of three, with a pack in the cache
C25_Witness ==
  /\ scan.done
  /\ scan.hit = 0
  /\ scan.err = "PackIdxCsum"
  /\ Len(scan.examined) = 2
  /\ Len(scan.dir) = 3
  /\ pack_cache[1].packidx # NULL

====
